---- MODULE Spec2Model ----
(***************************************************************************)
(* A model of the path command model of the canvas package (src/path.go):  *)
(* the packed command stream Path.d, its builder calls MoveTo, LineTo,     *)
(* QuadTo, CubeTo, ArcTo and Close, and the operations Append, Join,       *)
(* Reverse, Split, ParseSVGPath, String, Windings and Contains.            *)
(*                                                                         *)
(* Numbers.  Coordinates and radii are integers, so that the tolerance     *)
(* predicate Equal(a, b) is exact equality.  Angles in radians are counted *)
(* in quarter turns (Pi is 2 of them); angles in degrees are integers, and *)
(* only multiples of 90 degrees are used, so that sines and cosines are    *)
(* exact.  The stream p.d is a sequence of numbers exactly as in the code: *)
(* each command is its tag, its arguments, and its tag again.  Go's index  *)
(* k of p.d is index k+1 of the sequence.                                  *)
(***************************************************************************)
EXTENDS Integers, Sequences, FiniteSets, TLC

VARIABLES
    p,      \* the receiver path's stream, Path.d
    op,     \* the name of the last call
    arg,    \* the arguments of the last call
    res     \* the value the last call returned (<<>> for a builder call)

vars == <<p, op, arg, res>>

(***************************************************************************)
(* Command tags and lengths                                                *)
(***************************************************************************)
MoveToCmd == 1
LineToCmd == 2
QuadToCmd == 4
CubeToCmd == 8
ArcToCmd == 16
CloseCmd == 32

cmdLens == <<4, 4, 6, 8, 8, 4>>

Abs(x) == IF x < 0 THEN -x ELSE x

RECURSIVE Log2(_)
Log2(x) == IF x <= 1 THEN 0 ELSE 1 + Log2(x \div 2)

\* The biased exponent field of the float64 that holds the integer x.
ExponentBits(x) == IF x = 0 THEN 0 ELSE 1023 + Log2(Abs(x))

\* cmdLen reads the low byte of the exponent field, adds one in uint8 and
\* indexes cmdLens with it.
cmdLen(cmd) == cmdLens[(((ExponentBits(cmd) % 256) + 1) % 256) + 1]

(***************************************************************************)
(* Points                                                                  *)
(***************************************************************************)
Sub(a, b) == <<a[1] - b[1], a[2] - b[2]>>
Dot(a, b) == a[1] * b[1] + a[2] * b[2]
PerpDot(a, b) == a[1] * b[2] - a[2] * b[1]
Equal(a, b) == a = b
PointEquals(a, b) == Equal(a[1], b[1]) /\ Equal(a[2], b[2])
Signbit(x) == x < 0

\* Equal(u.AngleBetween(v), 0.0) and angleEqual(u.AngleBetween(v), 0.0): the
\* angle atan2(u x v, u . v) is zero.
AngleZero(u, v) == PerpDot(u, v) = 0 /\ Dot(u, v) >= 0

(***************************************************************************)
(* Angles: radians in quarter turns, degrees as integers                   *)
(***************************************************************************)
Pi == 2
DegToRad(deg) == (deg * Pi) \div 180
RadToDeg(rad) == (rad * 180) \div Pi
angleNorm(theta) == theta % (2 * Pi)
Cos(theta) == <<1, 0, -1, 0>>[(theta % (2 * Pi)) + 1]
Sin(theta) == <<0, 1, 0, -1>>[(theta % (2 * Pi)) + 1]

\* The value that stands for an infinite radius.
Inf == 1000
IsInf(x) == Abs(x) = Inf

toArcFlags(f) == <<f = 1 \/ f = 3, f = 2 \/ f = 3>>
fromArcFlags(large, sweep) == (IF large THEN 1 ELSE 0) + (IF sweep THEN 2 ELSE 0)

(***************************************************************************)
(* Queries on the stream                                                   *)
(***************************************************************************)
Empty(d) == Len(d) <= cmdLen(MoveToCmd)

Pos(d) == IF 0 < Len(d) THEN <<d[Len(d) - 2], d[Len(d) - 1]>> ELSE <<0, 0>>

\* i is Go's i: the command that ends before index i is examined.
RECURSIVE StartPosFrom(_, _)
StartPosFrom(d, i) ==
    IF i <= 0 THEN <<0, 0>>
    ELSE IF d[i] = MoveToCmd THEN <<d[i - 2], d[i - 1]>>
    ELSE StartPosFrom(d, i - cmdLen(d[i]))

StartPos(d) == StartPosFrom(d, Len(d))

(***************************************************************************)
(* Builder calls                                                           *)
(***************************************************************************)
MoveTo(d, x, y) ==
    IF 0 < Len(d) /\ d[Len(d)] = MoveToCmd
    THEN [d EXCEPT ![Len(d) - 2] = x, ![Len(d) - 1] = y]
    ELSE d \o <<MoveToCmd, x, y, MoveToCmd>>

\* The implicit MoveTo every drawing call makes on an empty or closed path.
startSubpath(d) ==
    IF Len(d) = 0 THEN MoveTo(d, 0, 0)
    ELSE IF d[Len(d)] = CloseCmd THEN MoveTo(d, d[Len(d) - 2], d[Len(d) - 1])
    ELSE d

\* The start point of the last command of d, a LineTo.
prevStartOf(d) ==
    IF cmdLen(LineToCmd) < Len(d)
    THEN <<d[Len(d) - cmdLen(LineToCmd) - 2], d[Len(d) - cmdLen(LineToCmd) - 1]>>
    ELSE <<0, 0>>

\* Equal(div/length, 0.0): the quotient is NaN, and not equal, for a zero length.
linesParallel(da, db) == Dot(da, da) * Dot(db, db) # 0 /\ PerpDot(da, db) = 0

lineExtends(da, db) ==
    IF da[2] < da[1] THEN Signbit(da[1]) = Signbit(db[1])
    ELSE Signbit(da[2]) = Signbit(db[2])

\* LineTo without the MoveTo it makes on an empty or closed path.
LineToNoMoveTo(d, x, y) ==
    IF PointEquals(Pos(d), <<x, y>>) THEN d
    ELSE d \o <<LineToCmd, x, y, LineToCmd>>

LineTo(d, x, y) ==
    LET start == Pos(d)
        end == <<x, y>>
    IN  IF PointEquals(start, end) THEN d
        ELSE IF /\ cmdLen(LineToCmd) <= Len(d)
                /\ d[Len(d)] = LineToCmd
                /\ linesParallel(Sub(start, prevStartOf(d)), Sub(end, start))
                /\ lineExtends(Sub(start, prevStartOf(d)), Sub(end, start))
        THEN [d EXCEPT ![Len(d) - 2] = x, ![Len(d) - 1] = y]
        ELSE startSubpath(d) \o <<LineToCmd, x, y, LineToCmd>>

QuadTo(d, cpx, cpy, x, y) ==
    LET start == Pos(d)
        cp == <<cpx, cpy>>
        end == <<x, y>>
    IN  IF PointEquals(start, end) /\ PointEquals(start, cp) THEN d
        ELSE IF /\ ~PointEquals(start, end)
                /\ (PointEquals(start, cp) \/ AngleZero(Sub(end, start), Sub(cp, start)))
                /\ (PointEquals(end, cp) \/ AngleZero(Sub(end, start), Sub(end, cp)))
        THEN LineTo(d, x, y)
        ELSE startSubpath(d) \o <<QuadToCmd, cpx, cpy, x, y, QuadToCmd>>

\* cp lies on the straight line through start and end, on the segment or outside it.
cubeCPColinear(start, cp, end) == PerpDot(Sub(end, start), Sub(cp, start)) = 0

\* One control point of a cubic lies on the segment from start to end.
cubeCPOnLine(start, cp, end) ==
    \/ PointEquals(start, cp)
    \/ PointEquals(end, cp)
    \/ (AngleZero(Sub(end, start), Sub(cp, start)) /\ AngleZero(Sub(end, start), Sub(end, cp)))

CubeTo(d, cpx1, cpy1, cpx2, cpy2, x, y) ==
    LET start == Pos(d)
        cp1 == <<cpx1, cpy1>>
        cp2 == <<cpx2, cpy2>>
        end == <<x, y>>
    IN  IF PointEquals(start, end) /\ PointEquals(start, cp1) /\ PointEquals(start, cp2) THEN d
        ELSE IF /\ ~PointEquals(start, end)
                /\ cubeCPOnLine(start, cp1, end)
                /\ cubeCPOnLine(start, cp2, end)
        THEN LineTo(d, x, y)
        ELSE startSubpath(d) \o <<CubeToCmd, cpx1, cpy1, cpx2, cpy2, x, y, CubeToCmd>>

(***************************************************************************)
(* Arcs                                                                    *)
(***************************************************************************)
\* math.Sqrt of a whole number, rounded down, by bisection.
RECURSIVE rootBetween(_, _, _)
rootBetween(n, lo, hi) ==
    IF hi <= lo THEN lo
    ELSE LET mid == (lo + hi + 1) \div 2
         IN  IF mid <= n \div mid THEN rootBetween(n, mid, hi)
             ELSE rootBetween(n, lo, mid - 1)
floorRoot(n) == rootBetween(n, 0, n)

IsSquare(n) == 0 <= n /\ floorRoot(n) * floorRoot(n) = n
Sqrt(n) == floorRoot(n)

\* The square of the factor ellipseRadiiCorrection returns, as the fraction
\* <<numerator, denominator>>: (x1p^2/rx^2 + y1p^2/ry^2) with x1p and y1p the
\* halves of the rotated difference of start and end.
ellipseRadiiCorrection(start, rx, ry, phi, end) ==
    LET diff == Sub(start, end)
        x1p2 == Cos(phi) * diff[1] + Sin(phi) * diff[2]
        y1p2 == -Sin(phi) * diff[1] + Cos(phi) * diff[2]
    IN  <<x1p2 * x1p2 * ry * ry + y1p2 * y1p2 * rx * rx, 4 * rx * rx * ry * ry>>

\* ArcTo's canonical form without the exchange of the radii.
arcNoSwap(rx, ry, rot) ==
    LET phi == angleNorm(DegToRad(IF Equal(Abs(rx), Abs(ry)) THEN 0 ELSE rot))
    IN  <<Abs(rx), Abs(ry), IF Pi <= phi THEN phi - Pi ELSE phi>>

\* The radii and rotation ArcTo stores for non-zero finite radii, before the
\* radii are scaled: <<rx, ry, phi>>.
arcCanonical(rx, ry, rot) ==
    LET arx == Abs(rx)
        ary == Abs(ry)
        rot1 == IF Equal(arx, ary) THEN 0 ELSE IF arx < ary THEN rot + 90 ELSE rot
        phi == angleNorm(DegToRad(rot1))
    IN  <<IF ~Equal(arx, ary) /\ arx < ary THEN ary ELSE arx,
          IF ~Equal(arx, ary) /\ arx < ary THEN arx ELSE ary,
          IF Pi <= phi THEN phi - Pi ELSE phi>>

\* The radii after "scale ellipse if rx and ry are too small": multiplied by
\* lambda when 1 < lambda.  lambda is sqrt(c[1]) / (2 rx ry).
arcScaled(start, rx, ry, phi, end) ==
    LET c == ellipseRadiiCorrection(start, rx, ry, phi, end)
    IN  IF c[1] > c[2]
        THEN <<Sqrt(c[1]) \div (2 * ry), Sqrt(c[1]) \div (2 * rx)>>
        ELSE <<rx, ry>>

\* The calls of ArcTo whose scaled radii are integers: the model makes no other.
arcExact(d, rx, ry, rot, x, y) ==
    IF PointEquals(Pos(d), <<x, y>>) THEN TRUE
    ELSE IF Equal(rx, 0) \/ IsInf(rx) \/ Equal(ry, 0) \/ IsInf(ry) THEN TRUE
    ELSE LET k == arcCanonical(rx, ry, rot)
             c == ellipseRadiiCorrection(Pos(d), k[1], k[2], k[3], <<x, y>>)
         IN  IF c[1] <= c[2] THEN TRUE
             ELSE /\ IsSquare(c[1])
                  /\ Sqrt(c[1]) % (2 * k[1]) = 0
                  /\ Sqrt(c[1]) % (2 * k[2]) = 0

ArcTo(d, rx, ry, rot, large, sweep, x, y) ==
    LET start == Pos(d)
        end == <<x, y>>
        k == arcCanonical(rx, ry, rot)
        r == arcScaled(start, k[1], k[2], k[3], end)
    IN  IF PointEquals(start, end) THEN d
        ELSE IF Equal(rx, 0) \/ IsInf(rx) \/ Equal(ry, 0) \/ IsInf(ry)
        THEN LineTo(d, x, y)
        ELSE startSubpath(d) \o
             <<ArcToCmd, r[1], r[2], k[3], fromArcFlags(large, sweep), x, y, ArcToCmd>>

(***************************************************************************)
(* Close                                                                   *)
(***************************************************************************)
\* Close that rewrites only the last slot of a LineTo it turns into a Close.
closeLastSlot(d) ==
    IF Len(d) > 0 /\ d[Len(d)] = LineToCmd THEN [d EXCEPT ![Len(d)] = CloseCmd]
    ELSE IF Len(d) = 0 \/ d[Len(d)] = CloseCmd THEN d
    ELSE d \o <<CloseCmd, StartPos(d)[1], StartPos(d)[2], CloseCmd>>

Close(d) ==
    LET n == Len(d)
        end == StartPos(d)
        start == <<d[n - 2], d[n - 1]>>
    IN  IF n = 0 \/ d[n] = CloseCmd THEN d
        ELSE IF d[n] = MoveToCmd THEN SubSeq(d, 1, n - cmdLen(MoveToCmd))
        ELSE IF d[n] = LineToCmd /\ Equal(d[n - 2], end[1]) /\ Equal(d[n - 1], end[2])
        THEN [d EXCEPT ![n] = CloseCmd, ![n - cmdLen(LineToCmd) + 1] = CloseCmd]
        ELSE IF d[n] = LineToCmd /\ AngleZero(Sub(end, start), Sub(start, prevStartOf(d)))
        THEN [d EXCEPT ![n - cmdLen(LineToCmd) + 1] = CloseCmd,
                       ![n - 2] = end[1], ![n - 1] = end[2], ![n] = CloseCmd]
        ELSE d \o <<CloseCmd, end[1], end[2], CloseCmd>>

(***************************************************************************)
(* Append, Join, Reverse, Split                                            *)
(***************************************************************************)
\* p.Append(q) for one path q.
PathAppend(pd, qd) ==
    LET p0 == IF Empty(pd) THEN <<>> ELSE pd
    IN  IF ~Empty(qd) THEN p0 \o qd ELSE p0

\* Join's switch: the first command of d (q without its MoveTo) goes through
\* the builder.
joinFirst(pd, d) ==
    CASE d[1] = MoveToCmd -> MoveTo(pd, d[2], d[3])
      [] d[1] = LineToCmd -> LineTo(pd, d[2], d[3])
      [] d[1] = QuadToCmd -> QuadTo(pd, d[2], d[3], d[4], d[5])
      [] d[1] = CubeToCmd -> CubeTo(pd, d[2], d[3], d[4], d[5], d[6], d[7])
      [] d[1] = ArcToCmd ->
            ArcTo(pd, d[2], d[3], RadToDeg(d[4]),
                  toArcFlags(d[5])[1], toArcFlags(d[5])[2], d[6], d[7])
      [] d[1] = CloseCmd -> Close(pd)
      [] OTHER -> pd

\* Join without the repair of the Close command.
repairNothing(d, i, end) == d

\* Join's "repair close commands" loop, from Go index i.
RECURSIVE repairClose(_, _, _)
repairClose(d, i, end) ==
    IF i >= Len(d) THEN d
    ELSE IF d[i + 1] = MoveToCmd THEN d
    ELSE IF d[i + 1] = CloseCmd THEN [d EXCEPT ![i + 2] = end[1], ![i + 3] = end[2]]
    ELSE repairClose(d, i + cmdLen(d[i + 1]), end)

\* Join that never welds q onto p.
JoinRaw(pd, qd) ==
    IF Empty(qd) THEN pd
    ELSE IF Empty(pd) THEN qd
    ELSE pd \o qd

Join(pd, qd) ==
    IF Empty(qd) THEN pd
    ELSE IF Empty(pd) THEN qd
    ELSE IF \/ pd[Len(pd)] = CloseCmd
            \/ ~Equal(pd[Len(pd) - 2], qd[2])
            \/ ~Equal(pd[Len(pd) - 1], qd[3])
    THEN pd \o qd
    ELSE LET d == SubSeq(qd, cmdLen(MoveToCmd) + 1, Len(qd))
             p1 == joinFirst(pd, d)
         IN  repairClose(p1 \o SubSeq(d, cmdLen(d[1]) + 1, Len(d)), Len(p1), StartPos(p1))

\* Reverse's loop.  i is Go's i before the command is read; q is the stream
\* built so far.
RECURSIVE reverseFrom(_, _, _, _, _, _)
reverseFrom(d, i, q, closed, first, start) ==
    IF i <= 0
    THEN IF closed THEN q \o <<CloseCmd, first[1], first[2], CloseCmd>> ELSE q
    ELSE
      LET cmd == d[i]
          j == i - cmdLen(cmd)
          end == IF 0 < j THEN <<d[j - 2], d[j - 1]>> ELSE <<0, 0>>
          closeCmd == <<CloseCmd, first[1], first[2], CloseCmd>>
          lineCmd == <<LineToCmd, end[1], end[2], LineToCmd>>
      IN  CASE cmd = MoveToCmd ->
                 reverseFrom(d, j,
                     (IF closed THEN q \o closeCmd ELSE q)
                         \o (IF j # 0 THEN <<MoveToCmd, end[1], end[2], MoveToCmd>> ELSE <<>>),
                     FALSE, IF j # 0 THEN end ELSE first, end)
            [] cmd = CloseCmd ->
                 reverseFrom(d, j, IF ~PointEquals(start, end) THEN q \o lineCmd ELSE q,
                     TRUE, first, end)
            [] cmd = LineToCmd ->
                 IF closed /\ (j = 0 \/ d[j] = MoveToCmd)
                 THEN reverseFrom(d, j, q \o closeCmd, FALSE, first, end)
                 ELSE reverseFrom(d, j, q \o lineCmd, closed, first, end)
            [] cmd = QuadToCmd ->
                 reverseFrom(d, j,
                     q \o <<QuadToCmd, d[j + 2], d[j + 3], end[1], end[2], QuadToCmd>>,
                     closed, first, end)
            [] cmd = CubeToCmd ->
                 reverseFrom(d, j,
                     q \o <<CubeToCmd, d[j + 4], d[j + 5], d[j + 2], d[j + 3],
                            end[1], end[2], CubeToCmd>>,
                     closed, first, end)
            [] cmd = ArcToCmd ->
                 reverseFrom(d, j,
                     q \o <<ArcToCmd, d[j + 2], d[j + 3], d[j + 4],
                            fromArcFlags(toArcFlags(d[j + 5])[1], ~toArcFlags(d[j + 5])[2]),
                            end[1], end[2], ArcToCmd>>,
                     closed, first, end)
            [] OTHER -> reverseFrom(d, j, q, closed, first, end)

\* Reverse that gives the path back as it is.
reverseKept(d) == d

Reverse(d) ==
    IF Len(d) = 0 THEN d
    ELSE reverseFrom(d, Len(d),
             <<MoveToCmd, d[Len(d) - 2], d[Len(d) - 1], MoveToCmd>>, FALSE,
             <<d[Len(d) - 2], d[Len(d) - 1]>>, <<d[Len(d) - 2], d[Len(d) - 1]>>)

\* Split's loop, with Go's indices i and j; ps is the list of paths so far.
RECURSIVE splitFrom(_, _, _, _)
splitFrom(d, i, j, ps) ==
    IF j >= Len(d)
    THEN IF i + cmdLen(MoveToCmd) < j THEN Append(ps, SubSeq(d, i + 1, j)) ELSE ps
    ELSE IF i < j /\ d[j + 1] = MoveToCmd
    THEN splitFrom(d, j, j + cmdLen(d[j + 1]), Append(ps, SubSeq(d, i + 1, j)))
    ELSE splitFrom(d, i, j + cmdLen(d[j + 1]), ps)

\* Split that also returns a last subpath that is only a MoveTo.
SplitKeepsMoveTo(d) ==
    IF Len(d) > cmdLen(MoveToCmd) /\ d[Len(d)] = MoveToCmd
    THEN Append(splitFrom(d, 0, 0, <<>>), SubSeq(d, Len(d) - cmdLen(MoveToCmd) + 1, Len(d)))
    ELSE splitFrom(d, 0, 0, <<>>)

Split(d) == splitFrom(d, 0, 0, <<>>)

(***************************************************************************)
(* ParseSVGPath and String.  A string is the sequence of its bytes, each a *)
(* string of one character.                                                *)
(***************************************************************************)
\* The bytes 32 to 122 in order (three of them by name).
AsciiTable ==
    <<
      " ", "!", "quote", "#", "$", "%", "&", "'", "(", ")", "*", "+", ",",
      "-", ".", "/", "0", "1", "2", "3", "4", "5", "6", "7", "8", "9",
      ":", ";", "<", "=", ">", "?", "@", "A", "B", "C", "D", "E", "F",
      "G", "H", "I", "J", "K", "L", "M", "N", "O", "P", "Q", "R", "S",
      "T", "U", "V", "W", "X", "Y", "Z", "[", "backslash", "]", "^", "_", "backquote",
      "a", "b", "c", "d", "e", "f", "g", "h", "i", "j", "k", "l", "m",
      "n", "o", "p", "q", "r", "s", "t", "u", "v", "w", "x", "y", "z">>

AsciiOf ==
    [c \in {AsciiTable[k] : k \in 1..Len(AsciiTable)} |->
        31 + (CHOOSE k \in 1..Len(AsciiTable) : AsciiTable[k] = c)]

\* The value of byte c.
Ascii(c) ==
    CASE c = "\t" -> 9
      [] c = "\n" -> 10
      [] c = "\r" -> 13
      [] OTHER -> AsciiOf[c]

\* The index after the commas and whitespace of path from Go index i.
RECURSIVE skipCommaWhitespace(_, _)
skipCommaWhitespace(path, i) ==
    IF i < Len(path) /\ path[i + 1] \in {" ", ",", "\n", "\r", "\t"}
    THEN skipCommaWhitespace(path, i + 1)
    ELSE i

IsDigit(c) == Ascii(c) >= 48 /\ Ascii(c) <= 57

\* The index after the digits of path from Go index i.
RECURSIVE digitsEnd(_, _)
digitsEnd(path, i) ==
    IF i < Len(path) /\ IsDigit(path[i + 1]) THEN digitsEnd(path, i + 1) ELSE i

\* The number the digits path[a:b] write.
RECURSIVE decimal(_, _, _)
decimal(path, a, b) ==
    IF a >= b THEN 0 ELSE 10 * decimal(path, a, b - 1) + (Ascii(path[b]) - 48)

\* The index after the digits of path from Go index i, among them one dot at
\* most, and the index of the dot (-1 for none).
RECURSIVE mantissaEnd(_, _, _)
mantissaEnd(path, i, dot) ==
    IF i < Len(path) /\ IsDigit(path[i + 1]) THEN mantissaEnd(path, i + 1, dot)
    ELSE IF i < Len(path) /\ dot = 0 - 1 /\ path[i + 1] = "." THEN mantissaEnd(path, i + 1, i)
    ELSE <<i, dot>>

RECURSIVE Pow10(_)
Pow10(k) == IF k <= 0 THEN 1 ELSE 10 * Pow10(k - 1)

\* strconv.ParseInt(path[i:]): <<the number, the bytes read>>.
ParseInt(path, i) ==
    LET signed == i < Len(path) /\ path[i + 1] \in {"+", "-"}
        start == IF signed THEN i + 1 ELSE i
        end == digitsEnd(path, start)
        num == decimal(path, start, end)
    IN  IF end = start THEN <<0, 0>>
        ELSE <<IF signed /\ path[i + 1] = "-" THEN 0 - num ELSE num, end - i>>

\* f 10^exp is a whole number.
whole10(f, exp) == exp >= 0 \/ f % Pow10(0 - exp) = 0

\* The number f 10^exp: a whole number as it is, any other as the pair of its
\* numerator and its denominator, a power of ten.
scaled10(f, exp) ==
    IF exp >= 0 THEN f * Pow10(exp)
    ELSE IF whole10(f, exp) THEN f \div Pow10(0 - exp)
    ELSE <<f, Pow10(0 - exp)>>

\* The number the digits path[start:end] write, the dot at index dot left out.
mantissa(path, start, end, dot) ==
    IF dot = 0 - 1 THEN decimal(path, start, end)
    ELSE decimal(path, start, dot) * Pow10(end - dot - 1) + decimal(path, dot + 1, end)

\* The exponent at Go index end: <<the number, the bytes read>>, the e among
\* them; no bytes are read where no number follows the e.
exponent(path, end) ==
    IF end < Len(path) /\ path[end + 1] \in {"e", "E"} /\ ParseInt(path, end + 1)[2] > 0
    THEN <<ParseInt(path, end + 1)[1], 1 + ParseInt(path, end + 1)[2]>>
    ELSE <<0, 0>>

\* What is read from Go index i where the digits, with the dot at index dot,
\* are path[start:end].
floatReadFrom(path, i, start, end, dot) ==
    IF end = start \/ (end = start + 1 /\ dot = start) THEN [f |-> 0, exp |-> 0, n |-> 0]
    ELSE [f |-> IF path[i + 1] = "-" THEN 0 - mantissa(path, start, end, dot)
                ELSE mantissa(path, start, end, dot),
          exp |-> exponent(path, end)[1] - (IF dot = 0 - 1 THEN 0 ELSE end - dot - 1),
          n |-> end + exponent(path, end)[2] - i]

\* What strconv.ParseFloat(path[i:]) reads, for a sign, digits with a dot
\* among them and an exponent: the digits as the number f, the power of ten
\* exp to take it with and the count n of the bytes read; no bytes are read
\* where no digit is.
floatRead(path, i) ==
    LET start == IF i < Len(path) /\ path[i + 1] \in {"+", "-"} THEN i + 1 ELSE i
        from(m) == floatReadFrom(path, i, start, m[1], m[2])
    IN  from(mantissaEnd(path, start, 0 - 1))

\* strconv.ParseFloat(path[i:]): <<the number, the bytes read>>.
ParseFloat(path, i) ==
    LET number(r) == <<scaled10(r.f, r.exp), r.n>>
    IN  number(floatRead(path, i))

\* Every number that can be read in path is a whole number.
wholeNumbers(path) ==
    LET whole(r) == whole10(r.f, r.exp)
    IN  \A i \in 0..(Len(path) - 1) : whole(floatRead(path, i))

\* ParseSVGPath's map cmdLens (0 for a byte it does not hold).
svgCmdLens(CMD) ==
    CASE CMD = "M" -> 2
      [] CMD = "Z" -> 0
      [] CMD = "L" -> 2
      [] CMD = "H" -> 1
      [] CMD = "V" -> 1
      [] CMD = "C" -> 6
      [] CMD = "S" -> 4
      [] CMD = "Q" -> 4
      [] CMD = "T" -> 2
      [] CMD = "A" -> 7
      [] OTHER -> 0

\* CMD: the command byte in upper case.
upperCmd(cmd) ==
    IF Ascii(cmd) >= 97 /\ Ascii(cmd) <= 122 THEN AsciiTable[Ascii(cmd) - 32 - 31] ELSE cmd

\* What ParseSVGPath returns: the path (nil TRUE for a nil path), the error
\* (err "" for nil) with the byte and the position of its message (pos 0 for a
\* message without a position), or a run-time panic.
ParseResult(d, isNil, err, ch, pos, panics) ==
    [path |-> d, nil |-> isNil, err |-> err, ch |-> ch, pos |-> pos, panics |-> panics]

ParseError(err, ch, pos) == ParseResult(<<>>, TRUE, err, ch, pos, FALSE)

\* The loop over the numbers of one command, from number j at Go index i;
\* f holds the numbers read.
RECURSIVE parseArgs(_, _, _, _, _, _)
parseArgs(path, i, cmd, repeat, j, f) ==
    IF j >= svgCmdLens(upperCmd(cmd))
    THEN [err |-> "", i |-> i, f |-> f]
    ELSE IF upperCmd(cmd) = "A" /\ (j = 3 \/ j = 4)
    THEN IF i < Len(path) /\ path[i + 1] = "1"
         THEN parseArgs(path, skipCommaWhitespace(path, i + 1), cmd, repeat, j + 1, Append(f, 1))
         ELSE IF i < Len(path) /\ path[i + 1] = "0"
         THEN parseArgs(path, skipCommaWhitespace(path, i + 1), cmd, repeat, j + 1, Append(f, 0))
         ELSE [err |-> "largeArc and sweep flags should be 0 or 1 in command",
               ch |-> cmd, pos |-> i + 1]
    ELSE LET r == ParseFloat(path, i)
         IN  IF r[2] = 0
             THEN IF repeat /\ j = 0 /\ i < Len(path)
                  THEN [err |-> "unknown command", ch |-> path[i + 1], pos |-> i + 1]
                  ELSE IF 1 < svgCmdLens(upperCmd(cmd))
                  THEN [err |-> "sets of numbers should follow command",
                        ch |-> cmd, pos |-> i + 1]
                  ELSE [err |-> "number should follow command", ch |-> cmd, pos |-> i + 1]
             ELSE parseArgs(path, skipCommaWhitespace(path, i + r[2]), cmd, repeat, j + 1,
                            Append(f, r[1]))

Add(a, b) == <<a[1] + b[1], a[2] + b[2]>>

\* p0.Mul(2.0).Sub(c): the reflection of the control point c in p0.
Reflect(p0, c) == <<2 * p0[1] - c[1], 2 * p0[2] - c[2]>>

\* ParseSVGPath's switch on cmd: the parser's variables after the command with
\* the numbers f.  st holds the path d, the control points q and c, the points
\* p0 and p1 and prevCmd.
svgCommand(st, cmd, f) ==
    LET off == IF cmd = upperCmd(cmd) THEN <<0, 0>> ELSE st.p0
        after(d, p1, q, c, prev) ==
            [d |-> d, q |-> q, c |-> c, p0 |-> p1, p1 |-> p1, prevCmd |-> prev]
    IN  CASE upperCmd(cmd) = "M" ->
               LET p1 == Add(<<f[1], f[2]>>, off)
               IN  after(MoveTo(st.d, p1[1], p1[2]), p1, st.q, st.c,
                         IF cmd = "m" THEN "l" ELSE "L")
          [] upperCmd(cmd) = "Z" ->
               after(Close(st.d), StartPos(st.d), st.q, st.c, cmd)
          [] upperCmd(cmd) = "L" ->
               LET p1 == Add(<<f[1], f[2]>>, off)
               IN  after(LineTo(st.d, p1[1], p1[2]), p1, st.q, st.c, cmd)
          [] upperCmd(cmd) = "H" ->
               LET p1 == <<f[1] + off[1], st.p1[2]>>
               IN  after(LineTo(st.d, p1[1], p1[2]), p1, st.q, st.c, cmd)
          [] upperCmd(cmd) = "V" ->
               LET p1 == <<st.p1[1], f[1] + off[2]>>
               IN  after(LineTo(st.d, p1[1], p1[2]), p1, st.q, st.c, cmd)
          [] upperCmd(cmd) = "C" ->
               LET cp1 == Add(<<f[1], f[2]>>, off)
                   cp2 == Add(<<f[3], f[4]>>, off)
                   p1 == Add(<<f[5], f[6]>>, off)
               IN  after(CubeTo(st.d, cp1[1], cp1[2], cp2[1], cp2[2], p1[1], p1[2]),
                         p1, st.q, cp2, cmd)
          [] upperCmd(cmd) = "S" ->
               LET cp1 == IF st.prevCmd \in {"C", "c", "S", "s"}
                          THEN Reflect(st.p0, st.c) ELSE st.p0
                   cp2 == Add(<<f[1], f[2]>>, off)
                   p1 == Add(<<f[3], f[4]>>, off)
               IN  after(CubeTo(st.d, cp1[1], cp1[2], cp2[1], cp2[2], p1[1], p1[2]),
                         p1, st.q, cp2, cmd)
          [] upperCmd(cmd) = "Q" ->
               LET cp == Add(<<f[1], f[2]>>, off)
                   p1 == Add(<<f[3], f[4]>>, off)
               IN  after(QuadTo(st.d, cp[1], cp[2], p1[1], p1[2]), p1, cp, st.c, cmd)
          [] upperCmd(cmd) = "T" ->
               LET cp == IF st.prevCmd \in {"Q", "q", "T", "t"}
                         THEN Reflect(st.p0, st.q) ELSE st.p0
                   p1 == Add(<<f[1], f[2]>>, off)
               IN  after(QuadTo(st.d, cp[1], cp[2], p1[1], p1[2]), p1, cp, st.c, cmd)
          [] upperCmd(cmd) = "A" ->
               LET p1 == Add(<<f[6], f[7]>>, off)
               IN  after(ArcTo(st.d, f[1], f[2], f[3], f[4] = 1, f[5] = 1, p1[1], p1[2]),
                         p1, st.q, st.c, cmd)

\* The bytes the switch has a case for.
svgCommands ==
    {"M", "m", "Z", "z", "L", "l", "H", "h", "V", "v",
     "C", "c", "S", "s", "Q", "q", "T", "t", "A", "a"}

\* ParseSVGPath's loop, from Go index i0.
RECURSIVE parseLoop(_, _, _)
parseLoop(path, i0, st) ==
    LET i == skipCommaWhitespace(path, i0)
    IN  IF Len(path) <= i THEN ParseResult(st.d, FALSE, "", "", 0, FALSE)
        ELSE
          LET fresh == \/ st.prevCmd \in {"z", "Z"}
                       \/ ~(IsDigit(path[i + 1]) \/ path[i + 1] \in {".", "-", "+"})
              cmd == IF fresh THEN path[i + 1] ELSE st.prevCmd
              i1 == IF fresh THEN skipCommaWhitespace(path, i + 1) ELSE i
              a == parseArgs(path, i1, cmd, ~fresh, 0, <<>>)
          IN  IF a.err # "" THEN ParseError(a.err, a.ch, a.pos)
              ELSE IF cmd \notin svgCommands
              THEN ParseError("unknown command", cmd, a.i + 1)
              ELSE parseLoop(path, a.i, svgCommand(st, cmd, a.f))

ParseSVGPath(s) ==
    IF Len(s) = 0 THEN ParseResult(<<>>, FALSE, "", "", 0, FALSE)
    ELSE IF s[1] = "," THEN ParseError("path should start with command", "", 0)
    ELSE IF skipCommaWhitespace(s, 0) >= Len(s)
    THEN ParseResult(<<>>, TRUE, "", "", 0, TRUE)
    ELSE IF Ascii(s[skipCommaWhitespace(s, 0) + 1]) < 65
    THEN ParseError("path should start with command", "", 0)
    ELSE parseLoop(s, skipCommaWhitespace(s, 0),
                   [d |-> <<>>, q |-> <<0, 0>>, c |-> <<0, 0>>,
                    p0 |-> <<0, 0>>, p1 |-> <<0, 0>>, prevCmd |-> "z"])

\* The digits of n >= 0.
RECURSIVE digitsOf(_)
digitsOf(n) ==
    IF n < 10 THEN <<AsciiTable[n + 48 - 31]>>
    ELSE digitsOf(n \div 10) \o <<AsciiTable[(n % 10) + 48 - 31]>>

\* %g of an integer.
FormatG(x) == IF x < 0 THEN <<"-">> \o digitsOf(-x) ELSE digitsOf(x)

\* The numbers of xs, each after sep except the first.
RECURSIVE formatAll(_)
formatAll(xs) ==
    IF Len(xs) = 0 THEN <<>>
    ELSE IF Len(xs) = 1 THEN FormatG(xs[1])
    ELSE FormatG(xs[1]) \o <<" ">> \o formatAll(Tail(xs))

\* String's loop, from Go index i.
RECURSIVE stringFrom(_, _)
stringFrom(d, i) ==
    IF i >= Len(d) THEN <<>>
    ELSE
      (CASE d[i + 1] = MoveToCmd -> <<"M">> \o formatAll(<<d[i + 2], d[i + 3]>>)
         [] d[i + 1] = LineToCmd -> <<"L">> \o formatAll(<<d[i + 2], d[i + 3]>>)
         [] d[i + 1] = QuadToCmd ->
               <<"Q">> \o formatAll(<<d[i + 2], d[i + 3], d[i + 4], d[i + 5]>>)
         [] d[i + 1] = CubeToCmd ->
               <<"C">> \o formatAll(<<d[i + 2], d[i + 3], d[i + 4], d[i + 5], d[i + 6], d[i + 7]>>)
         [] d[i + 1] = ArcToCmd ->
               <<"A">> \o formatAll(<<d[i + 2], d[i + 3], RadToDeg(d[i + 4])>>)
                   \o <<" ", IF toArcFlags(d[i + 5])[1] THEN "1" ELSE "0",
                        " ", IF toArcFlags(d[i + 5])[2] THEN "1" ELSE "0", " ">>
                   \o formatAll(<<d[i + 6], d[i + 7]>>)
         [] d[i + 1] = CloseCmd -> <<"z">>
         [] OTHER -> <<>>)
      \o stringFrom(d, i + cmdLen(d[i + 1]))

String(d) == stringFrom(d, 0)

\* Path.Len: the number of commands of the stream.
RECURSIVE lenFrom(_, _)
lenFrom(d, i) == IF i >= Len(d) THEN 0 ELSE 1 + lenFrom(d, i + cmdLen(d[i + 1]))

PathLen(d) == lenFrom(d, 0)

(***************************************************************************)
(* Arc, Reset, CopyTo, GobDecode and Transform                             *)
(***************************************************************************)
\* The indices at which the commands of d start, from index i.
RECURSIVE cmdStarts(_, _)
cmdStarts(d, i) == IF i > Len(d) THEN {} ELSE {i} \cup cmdStarts(d, i + cmdLen(d[i]))

EllipsePos(rx, ry, phi, cx, cy, theta) ==
    <<cx + rx * Cos(theta) * Cos(phi) - ry * Sin(theta) * Sin(phi),
      cy + rx * Cos(theta) * Sin(phi) + ry * Sin(theta) * Cos(phi)>>

\* p.Arc(rx, ry, rot, theta0, theta1) for angles in degrees that are multiples
\* of 90: one ArcTo, or the two halves of a full turn and then the rest.
Arc(d, rx, ry, rot, theta0deg, theta1deg) ==
    LET phi == DegToRad(rot)
        theta0 == DegToRad(theta0deg)
        theta1 == DegToRad(theta1deg)
        dtheta == Abs(theta1 - theta0)
        sweep == theta0 < theta1
        large == dtheta % (2 * Pi) > Pi
        p0 == EllipsePos(rx, ry, phi, 0, 0, theta0)
        p1 == EllipsePos(rx, ry, phi, 0, 0, theta1)
        start == Pos(d)
        center == Sub(start, p0)
        startOpposite == Sub(center, p0)
        end == Add(center, p1)
        turned == ArcTo(ArcTo(d, rx, ry, rot, large, sweep, startOpposite[1], startOpposite[2]),
                        rx, ry, rot, large, sweep, start[1], start[2])
    IN  IF dtheta >= 2 * Pi
        THEN IF Equal(dtheta % (2 * Pi), 0) THEN turned
             ELSE ArcTo(turned, rx, ry, rot, large, sweep, end[1], end[2])
        ELSE ArcTo(d, rx, ry, rot, large, sweep, end[1], end[2])

\* The calls of Arc every ArcTo of which is one of arcExact.
arcTurnExact(d, rx, ry, rot, theta0deg, theta1deg) ==
    LET theta0 == DegToRad(theta0deg)
        theta1 == DegToRad(theta1deg)
        dtheta == Abs(theta1 - theta0)
        large == dtheta % (2 * Pi) > Pi
        sweep == theta0 < theta1
        p0 == EllipsePos(rx, ry, DegToRad(rot), 0, 0, theta0)
        p1 == EllipsePos(rx, ry, DegToRad(rot), 0, 0, theta1)
        start == Pos(d)
        opposite == Sub(Sub(start, p0), p0)
        end == Add(Sub(start, p0), p1)
        half == ArcTo(d, rx, ry, rot, large, sweep, opposite[1], opposite[2])
    IN  IF dtheta >= 2 * Pi
        THEN /\ arcExact(d, rx, ry, rot, opposite[1], opposite[2])
             /\ arcExact(half, rx, ry, rot, start[1], start[2])
             /\ arcExact(ArcTo(half, rx, ry, rot, large, sweep, start[1], start[2]),
                         rx, ry, rot, end[1], end[2])
        ELSE arcExact(d, rx, ry, rot, end[1], end[2])

\* p.Reset(): p.d = p.d[:0]
Reset(d) == SubSeq(d, 1, 0)

\* p.CopyTo(q) for a path q that is not nil: q.d afterwards, a copy of p.d in
\* the memory of q.d where that is long enough, else in new memory.
CopyTo(d, qd) ==
    LET mem == IF Len(qd) < Len(d) THEN [i \in 1..Len(d) |-> 0] ELSE SubSeq(qd, 1, Len(d))
    IN  [i \in 1..Len(mem) |-> d[i]]

\* What GobEncode writes for p.d and GobDecode reads back: the numbers of the
\* stream in the order of the stream, as encoding/gob carries a []float64.
GobEncode(d) == [gob |-> d]
GobDecode(b) == b.gob

\* A Matrix: its rows <<a, b, tx>> and <<c, d, ty>>.
Identity == <<<<1, 0, 0>>, <<0, 1, 0>>>>

\* m.Translate(x, y) and m.Scale(x, y): m times the translation, the scaling.
MatrixTranslate(m, x, y) ==
    <<<<m[1][1], m[1][2], m[1][1] * x + m[1][2] * y + m[1][3]>>,
      <<m[2][1], m[2][2], m[2][1] * x + m[2][2] * y + m[2][3]>>>>

MatrixScale(m, x, y) ==
    <<<<m[1][1] * x, m[1][2] * y, m[1][3]>>, <<m[2][1] * x, m[2][2] * y, m[2][3]>>>>

\* m.Dot(q)
MatrixDot(m, q) ==
    <<m[1][1] * q[1] + m[1][2] * q[2] + m[1][3], m[2][1] * q[1] + m[2][2] * q[2] + m[2][3]>>

\* The paths and matrices Transform is exact for: the matrix scales along the
\* axes and translates, and where the path has an arc, the arc is one of a
\* circle and the matrix scales both axes by one factor that is not zero, up
\* to its sign.  The ellipse of such an arc is a circle again, its equation Q
\* a multiple of the identity whatever the matrix T, which for an arc stored
\* with the rotation 0 is m itself, and its rotation is 0.
transformExact(d, m) ==
    /\ m[1][2] = 0 /\ m[2][1] = 0
    /\ \A i \in cmdStarts(d, 1) :
          IF d[i] # ArcToCmd THEN TRUE
          ELSE /\ Equal(d[i + 1], d[i + 2])
               /\ d[i + 3] = 0
               /\ m[1][1] # 0 /\ Abs(m[1][1]) = Abs(m[2][2])

\* "xscale*yscale < 0.0" for the x and y scale of m.Decompose(), for a matrix
\* that scales along the axes.
flipsAxis(m) == m[1][1] * m[2][2] < 0

\* The loop of Transform from index i of d, for the paths and matrices of
\* transformExact.
RECURSIVE transformFrom(_, _, _)
transformFrom(d, i, m) ==
    IF i > Len(d) THEN <<>>
    ELSE LET cmd == d[i]
             at(k) == MatrixDot(m, <<d[i + k], d[i + k + 1]>>)
             flags == toArcFlags(d[i + 4])
         IN  (IF cmd = QuadToCmd
              THEN <<cmd, at(1)[1], at(1)[2], at(3)[1], at(3)[2], cmd>>
              ELSE IF cmd = CubeToCmd
              THEN <<cmd, at(1)[1], at(1)[2], at(3)[1], at(3)[2], at(5)[1], at(5)[2], cmd>>
              ELSE IF cmd = ArcToCmd
              THEN <<cmd, Abs(m[1][1]) * d[i + 1], Abs(m[2][2]) * d[i + 2], 0,
                     fromArcFlags(flags[1], IF flipsAxis(m) THEN ~flags[2] ELSE flags[2]),
                     at(5)[1], at(5)[2], cmd>>
              ELSE <<cmd, at(1)[1], at(1)[2], cmd>>)
                 \o transformFrom(d, i + cmdLen(cmd), m)

\* p.Transform(m): p.d afterwards, which is the path returned.
Transform(d, m) == transformFrom(d, 1, m)

Translate(d, x, y) == Transform(d, MatrixTranslate(Identity, x, y))

Scale(d, x, y) == Transform(d, MatrixScale(Identity, x, y))

\* Every point of d lies in the box from <<0, 0>> to the point max.
coordsWithin(d, max) ==
    \A i \in cmdStarts(d, 1) :
        \A k \in 1..(cmdLen(d[i]) - 2) :
            IF d[i] = ArcToCmd /\ k <= 4 THEN TRUE
            ELSE d[i + k] \in 0..max[IF k % 2 = 1 THEN 1 ELSE 2]

(***************************************************************************)
(* Calls.  Each action is one call of the package on the path p.  Its      *)
(* arguments are drawn from the sets of the record u, and the call is made *)
(* when the path it leaves has at most u.max commands.                     *)
(***************************************************************************)
Returns(d, name, a, r) == p' = d /\ op' = name /\ arg' = a /\ res' = r

MoveToCall(u) ==
    \E pt \in u.pts :
        LET d == MoveTo(p, pt[1], pt[2])
        IN  PathLen(d) <= u.max /\ Returns(d, "MoveTo", <<pt>>, <<>>)

LineToCall(u) ==
    \E pt \in u.pts :
        LET d == LineTo(p, pt[1], pt[2])
        IN  PathLen(d) <= u.max /\ Returns(d, "LineTo", <<pt>>, <<>>)

QuadToCall(u) ==
    \E cp \in u.cps, pt \in u.ends :
        LET d == QuadTo(p, cp[1], cp[2], pt[1], pt[2])
        IN  PathLen(d) <= u.max /\ Returns(d, "QuadTo", <<cp, pt>>, <<>>)

\* cp is the pair of control points.
CubeToCall(u) ==
    \E cp \in u.cps2, pt \in u.ends :
        LET d == CubeTo(p, cp[1][1], cp[1][2], cp[2][1], cp[2][2], pt[1], pt[2])
        IN  PathLen(d) <= u.max /\ Returns(d, "CubeTo", <<cp[1], cp[2], pt>>, <<>>)

\* a is <<rx, ry, rot, large, sweep>>.
ArcToCall(u) ==
    \E a \in u.arcs, pt \in u.aends :
        LET d == ArcTo(p, a[1], a[2], a[3], a[4], a[5], pt[1], pt[2])
        IN  /\ arcExact(p, a[1], a[2], a[3], pt[1], pt[2])
            /\ PathLen(d) <= u.max
            /\ Returns(d, "ArcTo", <<a, pt>>, <<>>)

\* a is <<rx, ry, rot, theta0, theta1>>.
ArcCall(u) ==
    \E a \in u.turns :
        LET d == Arc(p, a[1], a[2], a[3], a[4], a[5])
        IN  /\ arcTurnExact(p, a[1], a[2], a[3], a[4], a[5])
            /\ PathLen(d) <= u.turn
            /\ Returns(d, "Arc", <<a>>, <<>>)

ResetCall(u) ==
    /\ p' = Reset(p)
    /\ op' = "Reset" /\ arg' = <<>>
    /\ res' = <<>>

\* q.CopyTo(p) for a path q of u: p.d is overwritten.
CopyToCall(u) ==
    \E q \in u.qs :
        /\ p' = CopyTo(q, p)
        /\ op' = "CopyTo" /\ arg' = q
        /\ res' = p'

\* p.GobDecode(b) of the bytes b that q.GobEncode() returned for a path q of u.
GobDecodeCall(u) ==
    \E q \in u.qs :
        /\ p' = GobDecode(GobEncode(q))
        /\ op' = "GobDecode" /\ arg' = GobEncode(q)
        /\ res' = <<>>

\* p.Translate(x, y), which returns p.
TranslateCall(u) ==
    \E v \in u.moves :
        LET d == Translate(p, v[1], v[2])
        IN  /\ Len(p) > 0
            /\ transformExact(p, MatrixTranslate(Identity, v[1], v[2]))
            /\ coordsWithin(d, u.coord)
            /\ Returns(d, "Translate", v, d)

\* p.Scale(x, y), which returns p.
ScaleCall(u) ==
    \E v \in u.scales :
        LET d == Scale(p, v[1], v[2])
        IN  /\ Len(p) > 0
            /\ transformExact(p, MatrixScale(Identity, v[1], v[2]))
            /\ coordsWithin(d, u.coord)
            /\ Returns(d, "Scale", v, d)

CloseCall(u) ==
    /\ PathLen(Close(p)) <= u.max
    /\ Returns(Close(p), "Close", <<>>, <<>>)

AppendCall(u) ==
    \E q \in u.qs :
        LET d == PathAppend(p, q)
        IN  PathLen(d) <= u.joined /\ Returns(d, "Append", q, <<>>)

JoinCall(u) ==
    \E q \in u.qs :
        LET d == Join(p, q)
        IN  PathLen(d) <= u.joined /\ Returns(d, "Join", q, <<>>)

\* p = p.Reverse()
ReverseCall(u) ==
    /\ PathLen(Reverse(p)) <= u.max
    /\ Returns(Reverse(p), "Reverse", <<>>, <<>>)

\* p.Split(), which leaves p as it is.
SplitCall(u) ==
    /\ p' = p
    /\ op' = "Split" /\ arg' = <<>>
    /\ res' = Split(p)

\* ParseSVGPath(s) of a string s of u on a new path, or of the string that
\* String has returned, for the strings whose numbers are whole; p is the path
\* returned, if one is.
ParseCall(u) ==
    \E s \in {x \in (IF op = "String" THEN {res} ELSE IF op = "new" THEN u.strs ELSE {}) :
                  wholeNumbers(x)} :
        LET r == ParseSVGPath(s)
        IN  Returns(IF r.nil THEN <<>> ELSE r.path, "ParseSVGPath", s, r)

\* p.String()
StringCall(u) ==
    /\ op = "ParseSVGPath" /\ res.err = "" /\ ~res.panics
    /\ p' = p
    /\ op' = "String" /\ arg' = <<>>
    /\ res' = String(p)

Init == p = <<>> /\ op = "new" /\ arg = <<>> /\ res = <<>>

(***************************************************************************)
(* Spec: the calls that build and rebuild a path                           *)
(***************************************************************************)
MaxCmds == 3
MaxTurn == 4
MaxJoined == 4
MaxX == 4
MaxY == 2

\* Paths made with the builder, the arguments of Append and Join.
Q2 == LineTo(MoveTo(<<>>, 2, 0), 4, 0)
Q4 == Close(QuadTo(MoveTo(<<>>, 0, 2), 2, 2, 2, 0))

USpec ==
    [pts |-> {<<0, 0>>, <<2, 0>>, <<4, 0>>},
     cps |-> {<<2, 2>>},
     cps2 |-> {<<<<0, 2>>, <<2, 2>>>>},
     ends |-> {<<0, 2>>},
     arcs |-> {<<1, 2, 0, FALSE, TRUE>>, <<1, 1, 0, FALSE, TRUE>>},
     aends |-> {<<0, 2>>},
     qs |-> {Q2, Q4},
     turns |-> {<<2, 1, 0, 180, 0>>, <<2, 1, 0, 0, 180>>, <<2, 1, 0, 540, 0>>,
                <<2, 1, 0, 180, -180>>, <<1, 1, 0, 180, 0>>},
     moves |-> {<<0, 2>>},
     scales |-> {<<1, -1>>, <<2, 2>>},
     coord |-> <<MaxX, MaxY>>,
     turn |-> MaxTurn,
     joined |-> MaxJoined,
     max |-> MaxCmds]

Next ==
    \/ MoveToCall(USpec)
    \/ LineToCall(USpec)
    \/ QuadToCall(USpec)
    \/ CubeToCall(USpec)
    \/ ArcToCall(USpec)
    \/ ArcCall(USpec)
    \/ CloseCall(USpec)
    \/ ResetCall(USpec)
    \/ CopyToCall(USpec)
    \/ GobDecodeCall(USpec)
    \/ TranslateCall(USpec)
    \/ ScaleCall(USpec)
    \/ AppendCall(USpec)
    \/ JoinCall(USpec)
    \/ ReverseCall(USpec)

Spec == Init /\ [][Next]_vars

(***************************************************************************)
(* The commands of a stream, read from its front                           *)
(***************************************************************************)
\* C1: after any sequence of MoveTo, LineTo, QuadTo, CubeTo, ArcTo, Close,
\* Append, Join and Reverse calls from the empty path, the path is empty or
\* begins with a MoveTo, and the command after every Close is a MoveTo.
C1_SubpathsStartWithMoveTo ==
    /\ Len(p) = 0 \/ p[1] = MoveToCmd
    /\ \A i \in cmdStarts(p, 1) :
          p[i] = CloseCmd /\ i + cmdLen(CloseCmd) <= Len(p)
              => p[i + cmdLen(CloseCmd)] = MoveToCmd

\* A reversed path in which a command follows a Close.
C1_Witness ==
    /\ op = "Reverse"
    /\ \E i \in cmdStarts(p, 1) : p[i] = CloseCmd /\ i + cmdLen(CloseCmd) <= Len(p)

\* Every Close of d from index i ends at start, the point of the last MoveTo.
RECURSIVE closeEndsAtStart(_, _, _)
closeEndsAtStart(d, i, start) ==
    IF i > Len(d) THEN TRUE
    ELSE IF d[i] = MoveToCmd
    THEN closeEndsAtStart(d, i + cmdLen(d[i]), <<d[i + 1], d[i + 2]>>)
    ELSE /\ d[i] = CloseCmd => <<d[i + 1], d[i + 2]>> = start
         /\ closeEndsAtStart(d, i + cmdLen(d[i]), start)

\* C3: after any sequence of builder and Join calls, the end point stored in
\* every Close equals the coordinates of the MoveTo that starts its subpath;
\* Join rewrites the Close of the welded subpath.
C3_CloseEndsAtSubpathStart == closeEndsAtStart(p, 1, <<0, 0>>)

\* A Join has welded a closed q onto p and the Close no longer ends where q's did.
C3_Witness ==
    /\ op = "Join"
    /\ Len(arg) > 0 /\ arg[Len(arg)] = CloseCmd
    /\ p[Len(p)] = CloseCmd
    /\ <<p[Len(p) - 2], p[Len(p) - 1]>> # <<arg[Len(arg) - 2], arg[Len(arg) - 1]>>

(***************************************************************************)
(* SpecBuild: the builder calls on an initially empty path                 *)
(***************************************************************************)
MaxBuild == 3

UBuild ==
    [pts |-> {<<0, 0>>, <<2, 0>>},
     cps |-> {<<2, 2>>},
     cps2 |-> {<<<<0, 2>>, <<2, 2>>>>},
     ends |-> {<<0, 2>>},
     aends |-> {<<0, 0>>, <<4, 0>>, <<0, 2>>},
     arcs |-> {<<1, 1, 90, FALSE, TRUE>>, <<1, 2, 0, TRUE, TRUE>>,
               <<2, 1, 180, TRUE, FALSE>>, <<-2, 1, 270, FALSE, FALSE>>,
               <<2, -1, -90, FALSE, TRUE>>, <<0, 1, 0, FALSE, FALSE>>,
               <<1, Inf, 0, FALSE, FALSE>>},
     turns |-> {<<2, 1, 0, 180, -180>>, <<1, 2, 90, 0, 90>>, <<2, 1, 0, 540, 0>>},
     turn |-> MaxTurn,
     max |-> MaxBuild]

NextBuild ==
    \/ MoveToCall(UBuild)
    \/ LineToCall(UBuild)
    \/ QuadToCall(UBuild)
    \/ CubeToCall(UBuild)
    \/ ArcToCall(UBuild)
    \/ ArcCall(UBuild)
    \/ CloseCall(UBuild)

SpecBuild == Init /\ [][NextBuild]_vars

\* The point at which the command at index i of d starts.
startOf(d, i) == IF i > 1 THEN <<d[i - 3], d[i - 2]>> ELSE <<0, 0>>

\* C2: after any sequence of builder calls on an initially empty path the
\* stream has no no-op command: no LineTo that ends where it starts, no MoveTo
\* directly followed by a MoveTo, no Close directly after a MoveTo or a Close.
C2_NoNoOpCommand ==
    \A i \in cmdStarts(p, 1) :
        /\ p[i] = LineToCmd => <<p[i + 1], p[i + 2]>> # startOf(p, i)
        /\ p[i] = MoveToCmd /\ i + cmdLen(MoveToCmd) <= Len(p)
              => p[i + cmdLen(MoveToCmd)] # MoveToCmd
        /\ p[i] = CloseCmd => i > 1 /\ p[i - 1] \notin {MoveToCmd, CloseCmd}

\* The number of ArcTo commands of d.
numArcs(d) == Cardinality({i \in cmdStarts(d, 1) : d[i] = ArcToCmd})

arcsCanonical(d) ==
    \A i \in cmdStarts(d, 1) :
        d[i] = ArcToCmd =>
            LET rx == d[i + 1]
                ry == d[i + 2]
                phi == d[i + 3]
                c == ellipseRadiiCorrection(startOf(d, i), rx, ry, phi, <<d[i + 5], d[i + 6]>>)
            IN  /\ rx >= ry /\ ry > 0
                /\ 0 <= phi /\ phi < Pi
                /\ rx = ry => phi = 0
                /\ c[1] <= c[2]

\* What a call of ArcTo with a zero or infinite radius, or to the current
\* point, leaves behind.
arcToDegenerate ==
    op' = "ArcTo" =>
        LET a == arg'[1]
            end == arg'[2]
        IN  /\ end = Pos(p) => p' = p
            /\ end # Pos(p) /\ (a[1] \in {0, Inf, -Inf} \/ a[2] \in {0, Inf, -Inf})
                  => /\ p'[Len(p')] = LineToCmd
                     /\ Pos(p') = end
                     /\ numArcs(p') = numArcs(p)

\* C4: after any sequence of builder calls every stored ArcTo is canonical:
\* rx >= ry > 0, 0 <= phi < pi, phi = 0 when rx = ry, and the radii-correction
\* factor of the stored arc is at most 1; an ArcTo call with a zero or infinite
\* radius stores a LineTo instead, and one to the current point stores nothing.
C4_ArcToCanonical == [](arcsCanonical(p)) /\ [][arcToDegenerate]_vars

\* ArcTo has stored an arc with a rotation whose radii it scaled up.
C4_Witness ==
    /\ op = "ArcTo"
    /\ Len(p) > 0
    /\ p[Len(p)] = ArcToCmd
    /\ p[Len(p) - 4] # 0
    /\ p[Len(p) - 6] > Abs(arg[1][1]) /\ p[Len(p) - 6] > Abs(arg[1][2])

\* ArcTo was called with a zero or infinite radius, away from the current point.
C4_WitnessLine ==
    /\ op = "ArcTo"
    /\ arg[1][1] \in {0, Inf} \/ arg[1][2] \in {0, Inf}
    /\ Len(p) > 0
    /\ p[Len(p)] = LineToCmd

(***************************************************************************)
(* SpecRev: a path is built with the builder and then reversed             *)
(***************************************************************************)
MaxRev == 4

URev ==
    [pts |-> {<<0, 0>>, <<2, 0>>, <<0, 2>>},
     cps |-> {<<2, 2>>},
     cps2 |-> {<<<<0, 2>>, <<2, 2>>>>},
     ends |-> {<<0, 0>>, <<0, 2>>},
     arcs |-> {<<1, 2, 0, FALSE, TRUE>>},
     aends |-> {<<0, 2>>},
     max |-> MaxRev]

NextRev ==
    \/ op # "Reverse" /\ MoveToCall(URev)
    \/ op # "Reverse" /\ LineToCall(URev)
    \/ op # "Reverse" /\ QuadToCall(URev)
    \/ op # "Reverse" /\ CubeToCall(URev)
    \/ op # "Reverse" /\ ArcToCall(URev)
    \/ op # "Reverse" /\ CloseCall(URev)
    \/ ReverseCall(URev)

SpecRev == Init /\ [][NextRev]_vars

\* C5: for every path p built through the builder calls, p.Reverse().Reverse()
\* equals p command for command.
C5_ReverseTwice == [][op # "Reverse" /\ op' = "Reverse" => Reverse(p') = p]_vars

(***************************************************************************)
(* SpecJoin: paths are built and joined with paths made by the builder     *)
(***************************************************************************)
MaxJoin == 4

JQ1 == MoveTo(<<>>, 2, 0)
JQ2 == LineTo(MoveTo(<<>>, 0, 2), 2, 2)
JQ3 == Close(LineTo(LineTo(MoveTo(<<>>, 2, 0), 4, 0), 4, 2))
JQ4 == Close(QuadTo(MoveTo(<<>>, 0, 2), 2, 2, 2, 0))
JQ5 == ArcTo(MoveTo(<<>>, 2, 0), 2, 2, 0, FALSE, TRUE, 0, 2)
JQ6 == Close(CubeTo(MoveTo(<<>>, 2, 0), 0, 2, 2, 2, 0, 0))
JQ7 == Close(LineTo(MoveTo(LineTo(MoveTo(<<>>, 2, 0), 4, 0), 0, 0), 0, 2))

UJoin ==
    [pts |-> {<<0, 0>>, <<2, 0>>},
     cps |-> {<<2, 2>>},
     cps2 |-> {<<<<0, 2>>, <<2, 2>>>>},
     ends |-> {<<0, 2>>},
     arcs |-> {<<1, 2, 0, FALSE, TRUE>>},
     aends |-> {<<0, 2>>},
     qs |-> {<<>>, JQ1, JQ2, JQ3, JQ4, JQ5, JQ6, JQ7},
     joined |-> MaxJoin,
     max |-> MaxJoin]

NextJoin ==
    \/ MoveToCall(UJoin)
    \/ LineToCall(UJoin)
    \/ QuadToCall(UJoin)
    \/ CubeToCall(UJoin)
    \/ ArcToCall(UJoin)
    \/ CloseCall(UJoin)
    \/ JoinCall(UJoin)

SpecJoin == Init /\ [][NextJoin]_vars

\* Join welds q onto p: neither is empty, p's last subpath is open and q's
\* MoveTo is at p's end point.
welds(pd, qd) ==
    /\ Len(pd) > cmdLen(MoveToCmd) /\ Len(qd) > cmdLen(MoveToCmd)
    /\ pd[Len(pd)] # CloseCmd
    /\ <<qd[2], qd[3]>> = Pos(pd)

\* The command of stream d that starts at index i, applied to pd through the builder.
throughBuilder(pd, d, i) ==
    CASE d[i] = LineToCmd -> LineTo(pd, d[i + 1], d[i + 2])
      [] d[i] = QuadToCmd -> QuadTo(pd, d[i + 1], d[i + 2], d[i + 3], d[i + 4])
      [] d[i] = CubeToCmd ->
            CubeTo(pd, d[i + 1], d[i + 2], d[i + 3], d[i + 4], d[i + 5], d[i + 6])
      [] d[i] = ArcToCmd ->
            ArcTo(pd, d[i + 1], d[i + 2], RadToDeg(d[i + 3]),
                  d[i + 4] \in {1, 3}, d[i + 4] \in {2, 3}, d[i + 5], d[i + 6])
      [] d[i] = CloseCmd -> Close(pd)
      [] d[i] = MoveToCmd -> MoveTo(pd, d[i + 1], d[i + 2])

\* The commands of q after its MoveTo and its first drawing command.
afterFirst(qd) ==
    SubSeq(qd, cmdLen(MoveToCmd) + cmdLen(qd[cmdLen(MoveToCmd) + 1]) + 1, Len(qd))

\* The indices of the Close commands of d that no MoveTo precedes.
closesOfFirstSubpath(d) ==
    {i \in cmdStarts(d, 1) :
        d[i] = CloseCmd /\ \A j \in cmdStarts(d, 1) : j < i => d[j] # MoveToCmd}

\* d with the end point of the Close of its first subpath set to pt.
closeMovedTo(d, pt) ==
    [i \in 1..Len(d) |->
        IF \E c \in closesOfFirstSubpath(d) : i = c + 1 THEN pt[1]
        ELSE IF \E c \in closesOfFirstSubpath(d) : i = c + 2 THEN pt[2]
        ELSE d[i]]

\* Join(p, q) as stated: the rest of q is appended as it is.
joinClaimed(pd, qd) ==
    IF Len(qd) <= cmdLen(MoveToCmd) THEN pd
    ELSE IF Len(pd) <= cmdLen(MoveToCmd) THEN qd
    ELSE IF ~welds(pd, qd) THEN pd \o qd
    ELSE throughBuilder(pd, qd, cmdLen(MoveToCmd) + 1) \o afterFirst(qd)

\* The same, with the Close of q's welded subpath rewritten to the start point
\* of p's last subpath.
joinAmended(pd, qd) ==
    IF Len(qd) <= cmdLen(MoveToCmd) THEN pd
    ELSE IF Len(pd) <= cmdLen(MoveToCmd) THEN qd
    ELSE IF ~welds(pd, qd) THEN pd \o qd
    ELSE LET p1 == throughBuilder(pd, qd, cmdLen(MoveToCmd) + 1)
         IN  p1 \o closeMovedTo(afterFirst(qd), StartPos(p1))

\* C6 as stated: Join(p, q) returns p when q is empty and q when p is empty;
\* the raw concatenation when p's last subpath is closed or q's MoveTo is not at
\* p's end point; otherwise p's commands followed by q's commands without q's
\* MoveTo, q's first drawing command applied through the builder.
C6_JoinAsStated == [][op' = "Join" => p' = joinClaimed(p, arg')]_vars

\* C6, amended: as stated, and in the welded case the Close of q's first
\* subpath, if it has one, ends at the start point of p's last subpath.
C6_JoinAmended == [][op' = "Join" => p' = joinAmended(p, arg')]_vars

\* Join has welded the closed path JQ3 onto a path of one LineTo, which its
\* first LineTo extended, and has rewritten its Close.
C6_Witness ==
    /\ op = "Join"
    /\ arg = JQ3
    /\ PathLen(p) = PathLen(arg)
    /\ p[Len(p)] = CloseCmd
    /\ <<p[Len(p) - 2], p[Len(p) - 1]>> = <<0, 0>>
    /\ <<p[2], p[3]>> = <<0, 0>>

(***************************************************************************)
(* SpecSplit: a path is built and split                                    *)
(***************************************************************************)
MaxSplit == 5

USplit ==
    [pts |-> {<<0, 0>>, <<2, 0>>},
     cps |-> {<<2, 2>>},
     cps2 |-> {<<<<0, 2>>, <<2, 2>>>>},
     ends |-> {<<0, 2>>},
     arcs |-> {<<1, 2, 0, FALSE, TRUE>>},
     aends |-> {<<0, 2>>},
     max |-> MaxSplit]

NextSplit ==
    \/ MoveToCall(USplit)
    \/ LineToCall(USplit)
    \/ QuadToCall(USplit)
    \/ CubeToCall(USplit)
    \/ ArcToCall(USplit)
    \/ CloseCall(USplit)
    \/ SplitCall(USplit)

SpecSplit == Init /\ [][NextSplit]_vars

\* The streams of the list ps, one after the other.
RECURSIVE concat(_)
concat(ps) == IF Len(ps) = 0 THEN <<>> ELSE Head(ps) \o concat(Tail(ps))

\* d without a last subpath that is only a MoveTo.
withoutLastMoveTo(d) ==
    IF Len(d) > 0 /\ d[Len(d)] = MoveToCmd
    THEN SubSeq(d, 1, Len(d) - cmdLen(MoveToCmd))
    ELSE d

\* C7: for every builder-constructed path p, Split returns one path per
\* subpath in order: each has exactly one MoveTo, its first command, and the
\* returned paths one after the other are p's stream, except that a last
\* subpath of only a MoveTo is left out.
C7_SplitSubpaths ==
    op = "Split" =>
        /\ \A k \in 1..Len(res) :
              /\ Len(res[k]) > 0
              /\ {i \in cmdStarts(res[k], 1) : res[k][i] = MoveToCmd} = {1}
        /\ concat(res) = withoutLastMoveTo(p)

\* Split has returned two subpaths and left out a last MoveTo.
C7_Witness ==
    /\ op = "Split"
    /\ Len(res) = 2
    /\ p[Len(p)] = MoveToCmd

(***************************************************************************)
(* SpecParse: a string is parsed, the path is written with String and the  *)
(* string it gives is parsed                                               *)
(***************************************************************************)
MaxChunks == 3

\* Pieces of path data: commands with their numbers, a command without its
\* numbers, an arc with a flag that is not 0 or 1, a byte that is no command,
\* a number, separators.
Chunks ==
    {
     <<"M", "2", " ", "0">>,
     <<"L", "0", " ", "0">>,
     <<"L", "2", " ", "0">>,
     <<"L", "2", "e", "1", ".", "0">>,
     <<"L", "-", ".", "5", "e", "1", "-", "2", "0", "E", "-", "1", ",">>,
     <<"z">>,
     <<"h", "2">>,
     <<"V", "2">>,
     <<"Q", "2", " ", "2", " ", "0", " ", "2">>,
     <<"c", "0", " ", "2", " ", "2", " ", "2", " ", "2", " ", "0">>,
     <<"t", "2", " ", "0">>,
     <<"S", "2", " ", "2", " ", "4", " ", "0">>,
     <<"a", "1", " ", "1", " ", "0", " ", "0", " ", "1", " ", "4", " ", "0", " ">>,
     <<"a", "1", " ", "1", " ", "0", " ", "2", " ", "1", " ", "4", " ", "0">>,
     <<"x">>,
     <<"5">>,
     <<" ">>,
     <<",">>,
     <<"M">>
    }

\* The strings of up to MaxChunks pieces.
ParseInputs == {concat(ss) : ss \in UNION {[1..k -> Chunks] : k \in 0..MaxChunks}}

UParse == [strs |-> ParseInputs]

NextParse ==
    \/ ParseCall(UParse)
    \/ StringCall(UParse)

SpecParse == Init /\ [][NextParse]_vars

\* The position (from 1) at which the string s stops being path data, 0 if it
\* never does.  i is the index (from 0) read next, cmd the command being read
\* ("" before the first) and k the count of its numbers still to come.
RECURSIVE faultFrom(_, _, _, _)
faultFrom(s, i, cmd, k) ==
    LET j == skipCommaWhitespace(s, i)
        n == ParseFloat(s, j)[2]
    IN  IF j >= Len(s) THEN (IF k > 0 \/ cmd = "" THEN j + 1 ELSE 0)
        ELSE IF k > 0
        THEN IF upperCmd(cmd) = "A" /\ k \in {3, 4}
             THEN IF s[j + 1] \in {"0", "1"} THEN faultFrom(s, j + 1, cmd, k - 1) ELSE j + 1
             ELSE IF n > 0 THEN faultFrom(s, j + n, cmd, k - 1) ELSE j + 1
        ELSE IF cmd \notin {"", "z", "Z"} /\ n > 0
        THEN faultFrom(s, j, cmd, svgCmdLens(upperCmd(cmd)))
        ELSE IF s[j + 1] \in svgCommands
        THEN faultFrom(s, j + 1, s[j + 1], svgCmdLens(upperCmd(s[j + 1])))
        ELSE j + 1

faultPos(s) == IF Len(s) = 0 THEN 0 ELSE faultFrom(s, 0, "", 0)

\* C8: ParseSVGPath returns an error and no path, with the position (from 1)
\* of the fault in the message, whenever the input does not start with a
\* command letter, has a command without complete sets of its numbers, has an
\* arc flag that is not 0 or 1, or has an unknown command byte; it never
\* returns a path together with an error.
C8_ParseErrors ==
    op = "ParseSVGPath" =>
        /\ ~res.panics
        /\ ~(res.err # "" /\ ~res.nil)
        /\ faultPos(arg) > 0 =>
              res.err # "" /\ res.nil /\ res.pos = faultPos(arg)

\* C9: for every string s that ParseSVGPath accepts, with p the path it
\* returns, ParseSVGPath(p.String()) returns a path equal to p.
C9_ParseStringParse ==
    [][op = "String" /\ op' = "ParseSVGPath"
          => res'.err = "" /\ ~res'.panics /\ p' = p]_vars

(***************************************************************************)
(* Fill rules, the intersections of two lines and windings                 *)
(***************************************************************************)
NonZero == 0
EvenOdd == 1
Positive == 2
Negative == 3

FillRules == {NonZero, EvenOdd, Positive, Negative}

\* Go's a % b for b > 0: the remainder has the sign of a.
Rem(a, b) == IF a < 0 THEN -((-a) % b) ELSE a % b

\* Fills with an EvenOdd rule that takes the remainder 1 for odd.
FillsRemainderOne(fillRule, n) ==
    CASE fillRule = NonZero -> n # 0
      [] fillRule = EvenOdd -> Rem(n, 2) = 1
      [] fillRule = Positive -> 0 < n
      [] fillRule = Negative -> n < 0
      [] OTHER -> FALSE

Fills(fillRule, n) ==
    CASE fillRule = NonZero -> n # 0
      [] fillRule = EvenOdd -> Rem(n, 2) # 0
      [] fillRule = Positive -> 0 < n
      [] fillRule = Negative -> n < 0
      [] OTHER -> FALSE

RECURSIVE Gcd(_, _)
Gcd(a, b) == IF b = 0 THEN a ELSE Gcd(b, a % b)

\* The fraction n/d in lowest terms with a positive denominator.
Frac(n, d) ==
    LET g == Gcd(Abs(n), Abs(d))
        s == IF d < 0 THEN 0 - 1 ELSE 1
    IN  <<(s * n) \div g, (s * d) \div g>>

FracLess(a, b) == a[1] * b[2] < b[1] * a[2]

Min(a, b) == IF a < b THEN a ELSE b

Max(a, b) == IF a < b THEN b ELSE a

\* Point.Angle of a vector that is not zero: its direction, as the shortest
\* integer vector that points the same way.
Angle(v) ==
    LET g == Gcd(Abs(v[1]), Abs(v[2]))
    IN  <<v[1] \div g, v[2] \div g>>

\* Interval(f, lower, upper): f lies between the bounds, in either order.
Interval(f, lower, upper) ==
    IF upper < lower THEN upper <= f /\ f <= lower ELSE lower <= f /\ f <= upper

\* The point a0 + t (a1 - a0) for a fraction t, its coordinates as fractions.
Interpolate(a0, a1, t) ==
    <<Frac(a0[1] * t[2] + t[1] * (a1[1] - a0[1]), t[2]),
      Frac(a0[2] * t[2] + t[1] * (a1[2] - a0[2]), t[2])>>

\* An Intersection: the point, the parameters T along the two segments, the
\* directions Dir of the two segments, Tangent and Same.
Intersection(pos, ta, tb, dira, dirb, tangent, same) ==
    [Point |-> pos, T |-> <<ta, tb>>, Dir |-> <<dira, dirb>>,
     Tangent |-> tangent, Same |-> same]

\* Intersection.Into: the angle from Dir[0] to Dir[1] lies strictly between a
\* half turn and a full turn.  A direction Dir[1] that was moved by twice
\* Epsilon has the sign of the move as its third component, which decides for
\* two directions along one line.
Into(z) ==
    LET c == PerpDot(z.Dir[1], z.Dir[2])
    IN  \/ c < 0
        \/ c = 0 /\ Len(z.Dir[2]) = 3 /\ z.Dir[2][3] * Dot(z.Dir[1], z.Dir[2]) < 0

\* Intersections.add: T[0] is cut to [0,1] (a value of 1 or more becomes 1)
\* and T[1] likewise.
add(zs, pos, ta, tb, dira, dirb, tangent, same) ==
    LET cut(t) == IF t[1] < 0 THEN <<0, 1>> ELSE IF t[2] <= t[1] THEN <<1, 1>> ELSE t
    IN  Append(zs, Intersection(pos, cut(ta), cut(tb), dira, dirb, tangent, same))

intersectionLineLine(zs, a0, a1, b0, b1) ==
    IF PointEquals(a0, a1) \/ PointEquals(b0, b1) THEN zs
    ELSE LET da == Sub(a1, a0)
             db == Sub(b1, b0)
             anglea == Angle(da)
             angleb == Angle(db)
             div == PerpDot(da, db)
             at(q) == Interpolate(q, q, <<0, 1>>)
             \* the X of the points after the rotation to the x-axis, times
             \* the length of da
             a == Dot(a0, da)
             b == Dot(a1, da)
             c == Dot(b0, da)
             d == Dot(b1, da)
             ta == Frac(PerpDot(db, Sub(a0, b0)), div)
             tb == Frac(PerpDot(da, Sub(a0, b0)), div)
         IN  IF Equal(div, 0)
             THEN IF ~Equal(PerpDot(Sub(b0, a0), db), 0) THEN zs
                  ELSE IF Interval(a, c, d) /\ Interval(b, c, d)
                  THEN add(add(zs, at(a0), <<0, 1>>, Frac(a - c, d - c), anglea, angleb, TRUE, TRUE),
                           at(a1), <<1, 1>>, Frac(b - c, d - c), anglea, angleb, TRUE, TRUE)
                  ELSE IF Interval(c, a, b) /\ Interval(d, a, b)
                  THEN add(add(zs, at(b0), Frac(c - a, b - a), <<0, 1>>, anglea, angleb, TRUE, TRUE),
                           at(b1), Frac(d - a, b - a), <<1, 1>>, anglea, angleb, TRUE, TRUE)
                  ELSE IF Interval(a, c, d)
                  THEN LET same == a < d \/ a < c
                           z1 == add(zs, at(a0), <<0, 1>>, Frac(a - c, d - c),
                                     anglea, angleb, TRUE, same)
                       IN  IF a < d
                           THEN add(z1, at(b1), Frac(d - a, b - a), <<1, 1>>,
                                    anglea, angleb, TRUE, TRUE)
                           ELSE IF a < c
                           THEN add(z1, at(b0), Frac(c - a, b - a), <<0, 1>>,
                                    anglea, angleb, TRUE, TRUE)
                           ELSE z1
                  ELSE IF Interval(b, c, d)
                  THEN LET same == c < b \/ d < b
                           z1 == IF c < b
                                 THEN add(zs, at(b0), Frac(c - a, b - a), <<0, 1>>,
                                          anglea, angleb, TRUE, TRUE)
                                 ELSE IF d < b
                                 THEN add(zs, at(b1), Frac(d - a, b - a), <<1, 1>>,
                                          anglea, angleb, TRUE, TRUE)
                                 ELSE zs
                       IN  add(z1, at(a1), <<1, 1>>, Frac(b - c, d - c),
                               anglea, angleb, TRUE, same)
                  ELSE zs
             ELSE IF PointEquals(a1, b0)
             THEN add(zs, at(a1), <<1, 1>>, <<0, 1>>, anglea, angleb, TRUE, FALSE)
             ELSE IF PointEquals(a0, b1)
             THEN add(zs, at(a0), <<0, 1>>, <<1, 1>>, anglea, angleb, TRUE, FALSE)
             ELSE IF Interval(ta[1], 0, ta[2]) /\ Interval(tb[1], 0, tb[2])
             THEN add(zs, Interpolate(a0, a1, ta), ta, tb, anglea, angleb,
                      ta \in {<<0, 1>>, <<1, 1>>} \/ tb \in {<<0, 1>>, <<1, 1>>}, FALSE)
             ELSE zs

\* z put into the list zs, which is sorted by X, after the intersections
\* that are not to its right.
RECURSIVE insertByX(_, _)
insertByX(zs, z) ==
    IF Len(zs) = 0 THEN <<z>>
    ELSE IF FracLess(z.Point[1], zs[Len(zs)].Point[1])
    THEN insertByX(SubSeq(zs, 1, Len(zs) - 1), z) \o <<zs[Len(zs)]>>
    ELSE zs \o <<z>>

RECURSIVE sortByX(_)
sortByX(zs) ==
    IF Len(zs) = 0 THEN <<>>
    ELSE insertByX(sortByX(SubSeq(zs, 1, Len(zs) - 1)), zs[Len(zs)])

WindingsResult(n, boundary, panics) == [n |-> n, boundary |-> boundary, panics |-> panics]

RECURSIVE windingsFrom(_, _, _, _)
windingsFrom(zs, i, n, boundary) ==
    IF i >= Len(zs) THEN WindingsResult(n, boundary, FALSE)
    ELSE LET z == zs[i + 1]
             dd == IF Into(z) THEN 0 - 1 ELSE 1
         IN  IF z.T[1] = <<0, 1>> THEN windingsFrom(zs, i + 1, n, TRUE)
             ELSE IF z.T[2] # <<0, 1>> /\ z.T[2] # <<1, 1>>
             THEN windingsFrom(zs, i + 1, IF ~z.Same THEN n + dd ELSE n, boundary)
             ELSE IF z.Same THEN windingsFrom(zs, i + 2, n, boundary)
             ELSE IF i + 1 >= Len(zs) THEN WindingsResult(0, FALSE, TRUE)
             ELSE windingsFrom(zs, i + 2,
                               IF ~zs[i + 2].Same /\ Into(z) = Into(zs[i + 2])
                               THEN n + dd ELSE n,
                               boundary)

windings(zs) == windingsFrom(zs, 0, 0, FALSE)

(***************************************************************************)
(* SpecFills: Fills is called with fill rules and winding numbers          *)
(***************************************************************************)
MaxWindings == 8

\* The values of FillRule passed: the four rules and values that are none.
FillRuleValues == (0 - 2)..5

FillsCall ==
    \E fillRule \in FillRuleValues, n \in (0 - MaxWindings)..MaxWindings :
        /\ p' = p
        /\ op' = "Fills"
        /\ arg' = <<fillRule, n>>
        /\ res' = Fills(fillRule, n)

NextFills == FillsCall

SpecFills == Init /\ [][NextFills]_vars

isOdd(n) == \E k \in (0 - MaxWindings)..MaxWindings : n = 2 * k + 1

\* C11: Fills(n) is true exactly when the rule is NonZero and n # 0, EvenOdd
\* and n is odd (negative or positive), Positive and n > 0, or Negative and
\* n < 0; for any other value of FillRule it is false.
C11_Fills ==
    op = "Fills" =>
        (res <=> \/ arg[1] = NonZero /\ arg[2] # 0
                 \/ arg[1] = EvenOdd /\ isOdd(arg[2])
                 \/ arg[1] = Positive /\ arg[2] > 0
                 \/ arg[1] = Negative /\ arg[2] < 0)

\* EvenOdd has filled a negative odd winding number.
C11_Witness == op = "Fills" /\ arg = <<EvenOdd, 0 - 3>> /\ res = TRUE

(***************************************************************************)
(* The centre form of an arc                                               *)
(*                                                                         *)
(* It is exact in the model where the centre is a point of the integer     *)
(* grid and the arc starts and ends on an axis of its ellipse, so that     *)
(* both angles are whole quarter turns.                                    *)
(***************************************************************************)
\* The angle of an axis-parallel vector, in quarter turns from 0 to 3.
axisAngle(v) ==
    IF v[2] = 0 /\ v[1] > 0 THEN 0
    ELSE IF v[1] = 0 /\ v[2] > 0 THEN 1
    ELSE IF v[2] = 0 /\ v[1] < 0 THEN 2
    ELSE 3

\* The square root of n rounded down.
floorSqrt(n) == CHOOSE k \in 0..n : k * k <= n /\ n < (k + 1) * (k + 1)

\* ellipseToCenter's general case up to the vectors U and V, with the halved
\* quantities doubled: x1p2 is 2 x1p, cxp2 is 2 cxp, cx2 is 2 cx.
ellipseCenterParts(x1, y1, rx0, ry0, phi, large, sweep, x2, y2) ==
    LET r == arcScaled(<<x1, y1>>, rx0, ry0, phi, <<x2, y2>>)
        x1p2 == Cos(phi) * (x1 - x2) + Sin(phi) * (y1 - y2)
        y1p2 == (0 - Sin(phi)) * (x1 - x2) + Cos(phi) * (y1 - y2)
        sign == IF large = sweep THEN 0 - 1 ELSE 1
        scaled(rx, ry) ==
            LET num == 4 * rx * rx * ry * ry - rx * rx * y1p2 * y1p2 - ry * ry * x1p2 * x1p2
                den == rx * rx * y1p2 * y1p2 + ry * ry * x1p2 * x1p2
                rooted(sq) ==
                    LET cn == sign * floorSqrt(sq[1]) * rx * y1p2
                        cd == floorSqrt(sq[2]) * ry
                        dn == sign * floorSqrt(sq[1]) * (0 - ry) * x1p2
                        dd == floorSqrt(sq[2]) * rx
                        centred(cxp2, cyp2) ==
                            [rx |-> rx, ry |-> ry, sq |-> sq,
                             exactC |-> IsSquare(sq[1]) /\ IsSquare(sq[2])
                                        /\ cn % cd = 0 /\ dn % dd = 0,
                             cx2 |-> Cos(phi) * cxp2 - Sin(phi) * cyp2 + x1 + x2,
                             cy2 |-> Sin(phi) * cxp2 + Cos(phi) * cyp2 + y1 + y2,
                             u |-> <<(x1p2 - cxp2) * ry, (y1p2 - cyp2) * rx>>,
                             v |-> <<(0 - (x1p2 + cxp2)) * ry, (0 - (y1p2 + cyp2)) * rx>>]
                    IN  centred(cn \div cd, dn \div dd)
            IN  rooted(IF num <= 0 THEN <<0, 1>> ELSE Frac(num, den))
    IN  scaled(r[1], r[2])

\* The arcs whose centre form is exact.
centerExact(start, rx, ry, phi, large, sweep, end) ==
    LET exact(c) ==
            /\ c.sq[1] >= 0 /\ c.sq[2] > 0
            /\ c.exactC
            /\ c.cx2 % 2 = 0 /\ c.cy2 % 2 = 0
            /\ (c.u[1] = 0) # (c.u[2] = 0)
            /\ (c.v[1] = 0) # (c.v[2] = 0)
    IN  IF PointEquals(start, end) THEN TRUE
        ELSE IF Equal(Abs(end[1] - start[1]), rx) /\ Equal(start[2], end[2]) /\ Equal(phi, 0)
        THEN (end[1] - start[1]) % 2 = 0
        ELSE exact(ellipseCenterParts(start[1], start[2], rx, ry, phi, large, sweep,
                                      end[1], end[2]))

\* <<cx, cy, theta0, theta1>>
ellipseToCenter(x1, y1, rx, ry, phi, large, sweep, x2, y2) ==
    LET angles(c) ==
            LET theta == angleNorm(axisAngle(c.u))
                cross == PerpDot(c.u, c.v)
                delta0 == IF cross < 0 THEN 0 - 1
                          ELSE IF cross > 0 THEN 1
                          ELSE IF Dot(c.u, c.v) < 0 THEN Pi ELSE 0
                delta == IF ~sweep /\ 0 < delta0 THEN delta0 - 2 * Pi
                         ELSE IF sweep /\ delta0 < 0 THEN delta0 + 2 * Pi
                         ELSE delta0
            IN  <<c.cx2 \div 2, c.cy2 \div 2, theta, theta + delta>>
    IN  IF Equal(x1, x2) /\ Equal(y1, y2) THEN <<x1, y1, 0, 0>>
        ELSE IF Equal(Abs(x2 - x1), rx) /\ Equal(y1, y2) /\ Equal(phi, 0)
        THEN LET theta == IF x1 < x2 THEN Pi ELSE 0
                 delta == IF ~sweep THEN 0 - Pi ELSE Pi
             IN  <<x1 + (x2 - x1) \div 2, y1, theta, theta + delta>>
        ELSE angles(ellipseCenterParts(x1, y1, rx, ry, phi, large, sweep, x2, y2))

ellipseDeriv(rx, ry, phi, sweep, theta) ==
    LET dx == (0 - rx) * Sin(theta) * Cos(phi) - ry * Cos(theta) * Sin(phi)
        dy == (0 - rx) * Sin(theta) * Sin(phi) + ry * Cos(theta) * Cos(phi)
    IN  IF ~sweep THEN <<0 - dx, 0 - dy>> ELSE <<dx, dy>>

(***************************************************************************)
(* intersectionSegment                                                     *)
(***************************************************************************)
\* What intersectionSegment does: it panics with a message or returns zs.
Unsupported(msg) == [panics |-> TRUE, msg |-> msg, zs |-> <<>>]

Returned(zs) == [panics |-> FALSE, msg |-> "", zs |-> zs]

\* The list a solver for a curve returns, kept as the call that makes it (the
\* roots it solves for are no integers): the solver and its arguments, with T
\* and Dir of its intersections named after the argument they belong to.
Solver(name, args) ==
    <<[solver |-> name, args |-> args, T |-> <<"first", "second">>,
       Dir |-> <<"first", "second">>]>>

\* swapCurves that exchanges nothing.
keepCurves(zs) == zs

\* The exchange of T[0], T[1] and Dir[0], Dir[1] in every intersection of zs.
swapCurves(zs) ==
    [i \in 1..Len(zs) |->
        [zs[i] EXCEPT !.T = <<zs[i].T[2], zs[i].T[1]>>,
                      !.Dir = <<zs[i].Dir[2], zs[i].Dir[1]>>]]

\* angleTime: where theta lies from lower (0) to upper (1), as a fraction; an
\* angle before lower counts on from it by a full turn.
angleTime(theta, lower, upper) ==
    LET sweep == ~(upper < lower)
        lo == IF sweep THEN lower ELSE upper
        hi == IF sweep THEN upper ELSE lower
        t == Frac(angleNorm(theta - lo), hi - lo)
    IN  IF sweep THEN t ELSE Frac(t[2] - t[1], t[2])

\* Interval(t, 0.0, 1.0) and IntervalExclusive(t, 0.0, 1.0) of a fraction t.
unitInterval(t) == 0 <= t[1] /\ t[1] <= t[2]
unitIntervalExclusive(t) == 0 < t[1] /\ t[1] < t[2]

\* The direction of an arc at the angle theta.
arcAngle(theta, sweep) == angleNorm(IF sweep THEN theta + 1 ELSE theta + 1 - Pi)

\* |t - tOffset1| for tOffset1 0 or 1.
absOffset(t, tOffset1) == Frac(Abs(t[1] - tOffset1 * t[2]), t[2])

\* The branch "parallel" of intersectionEllipseEllipse: two arcs of one circle
\* with centre c and radius r.  s0, e0 and s1, e1 are thetaStart and thetaEnd
\* after the normalisation, d0 and d1 are dtheta0 and dtheta1.
circleOverlap(zs, c, r, s0, e0, d0, s1raw, e1raw, d1) ==
    LET opposite == (0 <= d0) # (0 <= d1)
        s1 == IF opposite THEN e1raw ELSE s1raw
        e1 == IF opposite THEN s1raw ELSE e1raw
        dirOffset1 == IF opposite THEN Pi ELSE 0
        tOffset1 == IF opposite THEN 1 ELSE 0
        at(theta) == LET q == EllipsePos(r, r, 0, c[1], c[2], theta)
                     IN  Interpolate(q, q, <<0, 1>>)
        dir(theta) == arcAngle(theta, 0 <= d0)
        dir1(theta) == angleNorm(dir(theta) + dirOffset1)
        t1 == angleTime(s0, s1, e1)
        t2 == angleTime(s1, s0, e0)
        t3 == angleTime(e1, s0, e0)
        t4 == angleTime(e0, s1, e1)
        z1 == IF unitInterval(t1)
              THEN add(zs, at(s0), <<0, 1>>, absOffset(t1, tOffset1), dir(s0), dir1(s0),
                       TRUE, TRUE)
              ELSE zs
        z2 == IF unitIntervalExclusive(t2)
              THEN add(z1, at(s1), t2, <<tOffset1, 1>>, dir(s1), dir1(s1), TRUE, TRUE)
              ELSE z1
        z3 == IF unitIntervalExclusive(t3)
              THEN add(z2, at(e1), t3, <<1 - tOffset1, 1>>, dir(e1), dir1(e1), TRUE, TRUE)
              ELSE z2
    IN  IF unitInterval(t4)
        THEN add(z3, at(e0), <<1, 1>>, absOffset(t4, tOffset1), dir(e0), dir1(e0), TRUE, TRUE)
        ELSE z3

\* The points mid and dev of two circles with the centres c0, c1 and the radii
\* r0, r1, and whether they are exact: R2 is the square of the distance of the
\* centres and root the square root in c.
circleParts(c0, r0, c1, r1) ==
    LET R2 == Dot(Sub(c1, c0), Sub(c1, c0))
        k == r0 * r0 - r1 * r1
        num == 2 * (r0 * r0 + r1 * r1) * R2 - k * k - R2 * R2
        root == floorSqrt(IF num < 0 THEN 0 ELSE num)
        mn == <<(c1[1] - c0[1]) * (R2 + k), (c1[2] - c0[2]) * (R2 + k)>>
        dn == <<(c1[2] - c0[2]) * root, (c0[1] - c1[1]) * root>>
        den == IF R2 = 0 THEN 1 ELSE 2 * R2
    IN  [R2 |-> R2,
         apart |-> R2 < (r0 - r1) * (r0 - r1) \/ (r0 + r1) * (r0 + r1) < R2,
         exactP |-> /\ root * root = num
                    /\ mn[1] % den = 0 /\ mn[2] % den = 0
                    /\ dn[1] % den = 0 /\ dn[2] % den = 0,
         mid |-> <<mn[1] \div den, mn[2] \div den>>,
         dev |-> <<dn[1] \div den, dn[2] \div den>>]

\* The intersection of two circles at c0 + mid + dev, which lies at pa from c0
\* and at pb from c1.
circleHit(zs, c0, pa, pb, s0, e0, d0, s1, e1, d1, tangent) ==
    LET ta == angleTime(axisAngle(pa), s0, e0)
        tb == angleTime(axisAngle(pb), s1, e1)
        ends == {<<0, 1>>, <<1, 1>>}
        q == Add(c0, pa)
    IN  IF unitInterval(ta) /\ unitInterval(tb)
        THEN add(zs, Interpolate(q, q, <<0, 1>>), ta, tb,
                 arcAngle(axisAngle(pa), 0 <= d0), arcAngle(axisAngle(pb), 0 <= d1),
                 tangent \/ ta \in ends \/ tb \in ends, FALSE)
        ELSE zs

\* intersectionEllipseEllipse(zs, c0, r0, phi0, thetaStart0, thetaEnd0, c1, r1,
\* phi1, thetaStart1, thetaEnd1) for an empty zs; r0 and r1 are <<rx, ry>>.
intersectionEllipseEllipse(c0, r0, phi0, thetaStart0, thetaEnd0, c1, r1, phi1, thetaStart1, thetaEnd1) ==
    LET d0 == thetaEnd0 - thetaStart0
        s0 == angleNorm(thetaStart0 + phi0)
        e0 == s0 + d0
        d1 == thetaEnd1 - thetaStart1
        s1 == angleNorm(thetaStart1 + phi1)
        e1 == s1 + d1
        c == circleParts(c0, r0[1], c1, r1[1])
        tangent == c.dev = <<0, 0>>
        za == circleHit(<<>>, c0, Add(c.mid, c.dev), Add(Add(Sub(c0, c1), c.mid), c.dev),
                        s0, e0, d0, s1, e1, d1, tangent)
    IN  IF ~Equal(r0[1], r0[2]) \/ ~Equal(r1[1], r1[2]) THEN Unsupported("not handled")
        ELSE IF PointEquals(c0, c1) /\ PointEquals(r0, r1)
        THEN Returned(circleOverlap(<<>>, c0, r0[1], s0, e0, d0, s1, e1, d1))
        ELSE IF c.apart THEN Returned(<<>>)
        ELSE IF tangent THEN Returned(za)
        ELSE Returned(circleHit(za, c0, Sub(c.mid, c.dev),
                                Sub(Add(Sub(c0, c1), c.mid), c.dev),
                                s0, e0, d0, s1, e1, d1, FALSE))

\* intersectionSegment's phi for the arc a as the path stores it, command
\* first: "phi := a[3] * math.Pi / 180.0", in whole quarter turns.  That is 0
\* for a stored 0 and also for a stored quarter turn, whose phi of 0.0274 rad
\* is the nearest to 0 without being 0 (see arcCenter).
segmentPhi(a) == DegToRad(a[4])

\* The centre form intersectionSegment computes for the arc a from a0:
\* <<cx, cy, theta0, theta1>>.  The rotation the path stores is converted as
\* if it were in degrees: a stored 0 stays 0, and a stored quarter turn
\* becomes 0.0274 rad, which is no quarter turn and not within Epsilon of 0.
\* ellipseToCenter then runs its general branch with a phi the model has no
\* number for, and the centre form is kept as the call that computes it.
arcCenter(a0, a) ==
    IF Equal(a[4], 0)
    THEN ellipseToCenter(a0[1], a0[2], a[2], a[3], 0,
                         toArcFlags(a[5])[1], toArcFlags(a[5])[2], a[6], a[7])
    ELSE [call |-> "ellipseToCenter", start |-> a0, arc |-> a]

\* cubicBezierDeriv at the fraction t, times the square of its denominator.
cubicBezierDeriv(p0, p1, p2, p3, t) ==
    LET u == t[2] - t[1]
        c(k) == 3 * u * u * (p1[k] - p0[k]) + 6 * u * t[1] * (p2[k] - p1[k])
                    + 3 * t[1] * t[1] * (p3[k] - p2[k])
    IN  <<c(1), c(2)>>

\* cubicBezierPos at the fraction t: the point, its coordinates as fractions.
cubicBezierPos(p0, p1, p2, p3, t) ==
    LET u == t[2] - t[1]
        c(k) == u * u * u * p0[k] + 3 * u * u * t[1] * p1[k]
                    + 3 * u * t[1] * t[1] * p2[k] + t[1] * t[1] * t[1] * p3[k]
    IN  <<Frac(c(1), t[2] * t[2] * t[2]), Frac(c(2), t[2] * t[2] * t[2])>>

\* cubicBezierDeriv2 at the fraction t, times its denominator.
cubicBezierDeriv2(p0, p1, p2, p3, t) ==
    LET c(k) == 6 * (t[2] - t[1]) * (p0[k] - 2 * p1[k] + p2[k])
                    + 6 * t[1] * (p1[k] - 2 * p2[k] + p3[k])
    IN  <<c(1), c(2)>>

cubicBezierDeriv3(p0, p1, p2, p3, t) ==
    <<6 * (p3[1] - 3 * p2[1] + 3 * p1[1] - p0[1]),
      6 * (p3[2] - 3 * p2[2] + 3 * p1[2] - p0[2])>>

\* The fractions among which the roots of a cubic are looked for.
RootCandidates == {Frac(n, m) : n \in (0 - 8)..8, m \in {1, 2, 4}}

\* The roots of a x^3 + b x^2 + c x + d among the candidates.
cubicRoots(a, b, c, d) ==
    {t \in RootCandidates :
        a * t[1] * t[1] * t[1] + b * t[1] * t[1] * t[2]
            + c * t[1] * t[2] * t[2] + d * t[2] * t[2] * t[2] = 0}

\* The cubics the model solves exactly: three distinct roots, all candidates.
cubicExact(a, b, c, d) == a # 0 /\ Cardinality(cubicRoots(a, b, c, d)) = 3

\* solveCubicFormula of an exact cubic: its three roots in ascending order.
solveCubicFormula(a, b, c, d) ==
    CHOOSE r \in [1..3 -> cubicRoots(a, b, c, d)] :
        FracLess(r[1], r[2]) /\ FracLess(r[2], r[3])

\* An angle moved by twice Epsilon: the direction with the sign of the move
\* as a third component, 1 for +, -1 for -; the direction itself for no move.
nudged(dir, k) == IF k = 0 THEN dir ELSE <<dir[1], dir[2], k>>

\* The coefficients <<a, b, c, d>> of intersectionLineCube.
lineCubeCoefs(l0, l1, p0, p1, p2, p3) ==
    LET A == <<l1[2] - l0[2], l0[1] - l1[1]>>
        v(k) == p3[k] - p0[k] + 3 * p1[k] - 3 * p2[k]
        w(k) == 3 * p0[k] - 6 * p1[k] + 3 * p2[k]
        x(k) == 3 * p1[k] - 3 * p0[k]
    IN  <<Dot(A, <<v(1), v(2)>>), Dot(A, <<w(1), w(2)>>), Dot(A, <<x(1), x(2)>>),
          Dot(A, p0) - Dot(l0, A)>>

\* The body of intersectionLineCube's loop for one root.
lineCubeRoot(zs, l0, l1, p0, p1, p2, p3, root) ==
    LET A == <<l1[2] - l0[2], l0[1] - l1[1]>>
        horizontal == Abs(l1[2] - l0[2]) <= Abs(l1[1] - l0[1])
        pos == cubicBezierPos(p0, p1, p2, p3, root)
        s == IF horizontal
             THEN Frac(pos[1][1] - l0[1] * pos[1][2], pos[1][2] * (l1[1] - l0[1]))
             ELSE Frac(pos[2][1] - l0[2] * pos[2][2], pos[2][2] * (l1[2] - l0[2]))
        deriv == cubicBezierDeriv(p0, p1, p2, p3, root)
        deriv2 == cubicBezierDeriv2(p0, p1, p2, p3, root)
        deriv3 == cubicBezierDeriv3(p0, p1, p2, p3, root)
        endpoint == root = <<0, 1>> \/ root = <<1, 1>> \/ s = <<0, 1>> \/ s = <<1, 1>>
        atStart == root = <<0, 1>> \/ (root # <<1, 1>> /\ s = <<0, 1>>)
        inflection == /\ ~endpoint
                      /\ PerpDot(Sub(l1, l0), deriv) = 0
                      /\ deriv2 = <<0, 0>>
        k == IF endpoint
             THEN IF (0 <= PerpDot(deriv, deriv2)) = atStart THEN 1 ELSE 0 - 1
             ELSE IF inflection
             THEN IF 0 < PerpDot(deriv, deriv3) THEN 1 ELSE 0 - 1
             ELSE 0
        tangent == ~inflection /\ Equal(Dot(A, deriv), 0)
        dirb == IF deriv = <<0, 0>> THEN <<1, 0>> ELSE Angle(deriv)
    IN  IF unitInterval(root) /\ unitInterval(s)
        THEN add(zs, pos, s, root, Angle(Sub(l1, l0)), nudged(dirb, k),
                 endpoint \/ tangent, FALSE)
        ELSE zs

\* intersectionLineCube's loop over the roots, from the k-th.
RECURSIVE lineCubeFrom(_, _, _, _, _, _, _, _, _)
lineCubeFrom(zs, l0, l1, p0, p1, p2, p3, roots, k) ==
    IF k > Len(roots) THEN zs
    ELSE lineCubeFrom(lineCubeRoot(zs, l0, l1, p0, p1, p2, p3, roots[k]),
                      l0, l1, p0, p1, p2, p3, roots, k + 1)

\* The line and the cubic whose intersections are exact in the model.
lineCubeExact(l0, l1, p0, p1, p2, p3) ==
    LET exact(q) == cubicExact(q[1], q[2], q[3], q[4])
    IN  ~PointEquals(l0, l1) /\ exact(lineCubeCoefs(l0, l1, p0, p1, p2, p3))

intersectionLineCube(zs, l0, l1, p0, p1, p2, p3) ==
    LET solved(q) ==
            lineCubeFrom(zs, l0, l1, p0, p1, p2, p3,
                         solveCubicFormula(q[1], q[2], q[3], q[4]), 1)
    IN  IF PointEquals(l0, l1) THEN zs
        ELSE solved(lineCubeCoefs(l0, l1, p0, p1, p2, p3))

\* The pairs of segments whose intersections are exact in the model: for two
\* arcs of circles, the centres and the points where the circles meet are
\* points of the grid, on the axes through both centres.
pairExact(a0, a, b0, b) ==
    IF a[1] = ArcToCmd /\ b[1] = ArcToCmd /\ a[2] = a[3] /\ b[2] = b[3]
    THEN /\ Equal(a[4], 0) /\ Equal(b[4], 0)
         /\ centerExact(a0, a[2], a[3], segmentPhi(a), toArcFlags(a[5])[1],
                        toArcFlags(a[5])[2], <<a[6], a[7]>>)
         /\ centerExact(b0, b[2], b[3], segmentPhi(b), toArcFlags(b[5])[1],
                        toArcFlags(b[5])[2], <<b[6], b[7]>>)
         /\ LET ca == arcCenter(a0, a)
                cb == arcCenter(b0, b)
                c0 == <<ca[1], ca[2]>>
                c1 == <<cb[1], cb[2]>>
                c == circleParts(c0, a[2], c1, b[2])
                axis(v) == (v[1] = 0) # (v[2] = 0)
            IN  \/ c0 = c1 /\ a[2] = b[2]
                \/ c.apart
                \/ /\ c.exactP
                   /\ axis(Add(c.mid, c.dev)) /\ axis(Sub(c.mid, c.dev))
                   /\ axis(Add(Add(Sub(c0, c1), c.mid), c.dev))
                   /\ axis(Sub(Add(Sub(c0, c1), c.mid), c.dev))
    ELSE TRUE

\* intersectionSegment(zs, a0, a, b0, b) for an empty zs; a and b are the
\* segments as the path stores them, command first.
intersectionSegment(a0, a, b0, b) ==
    LET isLine(s) == s[1] = LineToCmd \/ s[1] = CloseCmd
    IN  IF isLine(a)
        THEN IF isLine(b)
             THEN Returned(intersectionLineLine(<<>>, a0, <<a[2], a[3]>>, b0, <<b[2], b[3]>>))
             ELSE IF b[1] = QuadToCmd
             THEN Returned(Solver("intersectionLineQuad", <<a0, a, b0, b>>))
             ELSE IF b[1] = CubeToCmd
             THEN IF lineCubeExact(a0, <<a[2], a[3]>>, b0, <<b[2], b[3]>>, <<b[4], b[5]>>, <<b[6], b[7]>>)
                  THEN Returned(intersectionLineCube(<<>>, a0, <<a[2], a[3]>>, b0, <<b[2], b[3]>>, <<b[4], b[5]>>, <<b[6], b[7]>>))
                  ELSE Returned(Solver("intersectionLineCube", <<a0, a, b0, b>>))
             ELSE IF b[1] = ArcToCmd
             THEN Returned(Solver("intersectionLineEllipse", <<a0, a, b0, b>>))
             ELSE Returned(<<>>)
        ELSE IF a[1] = QuadToCmd
        THEN IF isLine(b)
             THEN Returned(swapCurves(Solver("intersectionLineQuad", <<b0, b, a0, a>>)))
             ELSE IF b[1] = QuadToCmd THEN Unsupported("unsupported intersection for quad-quad")
             ELSE IF b[1] = CubeToCmd THEN Unsupported("unsupported intersection for quad-cube")
             ELSE IF b[1] = ArcToCmd THEN Unsupported("unsupported intersection for quad-arc")
             ELSE Returned(<<>>)
        ELSE IF a[1] = CubeToCmd
        THEN IF isLine(b)
             THEN IF lineCubeExact(b0, <<b[2], b[3]>>, a0, <<a[2], a[3]>>, <<a[4], a[5]>>, <<a[6], a[7]>>)
                  THEN Returned(swapCurves(intersectionLineCube(<<>>, b0, <<b[2], b[3]>>, a0, <<a[2], a[3]>>, <<a[4], a[5]>>, <<a[6], a[7]>>)))
                  ELSE Returned(swapCurves(Solver("intersectionLineCube", <<b0, b, a0, a>>)))
             ELSE IF b[1] = QuadToCmd THEN Unsupported("unsupported intersection for cube-quad")
             ELSE IF b[1] = CubeToCmd THEN Unsupported("unsupported intersection for cube-cube")
             ELSE IF b[1] = ArcToCmd THEN Unsupported("unsupported intersection for cube-arc")
             ELSE Returned(<<>>)
        ELSE IF a[1] = ArcToCmd
        THEN IF isLine(b)
             THEN Returned(swapCurves(Solver("intersectionLineEllipse", <<b0, b, a0, a>>)))
             ELSE IF b[1] = QuadToCmd THEN Unsupported("unsupported intersection for arc-quad")
             ELSE IF b[1] = CubeToCmd THEN Unsupported("unsupported intersection for arc-cube")
             ELSE IF b[1] = ArcToCmd
             THEN LET ca == arcCenter(a0, a)
                      cb == arcCenter(b0, b)
                  IN  intersectionEllipseEllipse(
                          <<ca[1], ca[2]>>, <<a[2], a[3]>>, segmentPhi(a), ca[3], ca[4],
                          <<cb[1], cb[2]>>, <<b[2], b[3]>>, segmentPhi(b), cb[3], cb[4])
             ELSE Returned(<<>>)
        ELSE Returned(<<>>)

IntersectCall(u) ==
    \E a \in u.segs, b \in u.segs :
        /\ pairExact(a[1], a[2], b[1], b[2])
        /\ p' = p
        /\ op' = "intersectionSegment"
        /\ arg' = <<a, b>>
        /\ res' = intersectionSegment(a[1], a[2], b[1], b[2])

(***************************************************************************)
(* SpecSegments: two segments of every kind are intersected                *)
(***************************************************************************)
\* Segments with their start points: lines and a Close, quadratic and cubic
\* Beziers, arcs of circles and an arc of an ellipse.
USegments ==
    [segs |-> {<<<<0, 0>>, <<LineToCmd, 4, 0>>>>,
               <<<<0, 0>>, <<LineToCmd, 4, 4>>>>,
               <<<<4, 0>>, <<LineToCmd, 0, 4>>>>,
               <<<<4, 4>>, <<CloseCmd, 0, 0>>>>,
               <<<<0, 0>>, <<QuadToCmd, 2, 2, 4, 0>>>>,
               <<<<0, 4>>, <<QuadToCmd, 2, 0, 4, 4>>>>,
               <<<<0, 0>>, <<CubeToCmd, 0, 2, 4, 2, 4, 0>>>>,
               <<<<0, 4>>, <<CubeToCmd, 0, 0, 4, 0, 4, 4>>>>,
               <<<<0, 0>>, <<ArcToCmd, 2, 2, 0, 0, 4, 0>>>>,
               <<<<0, 0>>, <<ArcToCmd, 2, 2, 0, 2, 4, 0>>>>,
               <<<<0, 0>>, <<ArcToCmd, 4, 2, 0, 0, 8, 0>>>>}]

NextSegments == IntersectCall(USegments)

SpecSegments == Init /\ [][NextSegments]_vars

segmentKind(s) ==
    CASE s[1] \in {LineToCmd, CloseCmd} -> "line"
      [] s[1] = QuadToCmd -> "quad"
      [] s[1] = CubeToCmd -> "cube"
      [] s[1] = ArcToCmd -> "arc"

\* C12: intersectionSegment(a, b) panics exactly for the pairs quad-quad,
\* quad-cube, cube-cube, quad-arc and cube-arc, in either order; for every
\* other pair of line or close, quad, cube and arc segments, every pair of
\* arcs among them, it returns a list of intersections.
C12_PanicsForUnsupportedPairs ==
    op = "intersectionSegment" =>
        (res.panics <=>
            {segmentKind(arg[1][2]), segmentKind(arg[2][2])} \in
                {{"quad"}, {"quad", "cube"}, {"cube"}, {"quad", "arc"}, {"cube", "arc"}})

(***************************************************************************)
(* FastBounds                                                              *)
(***************************************************************************)
Rect(x0, y0, x1, y1) == <<x0, y0, x1, y1>>

\* FastBounds' loop from index i with the rectangle r so far.
RECURSIVE fastBoundsFrom(_, _, _, _)
fastBoundsFrom(d, i, start, r) ==
    IF i >= Len(d) THEN r
    ELSE LET cmd == d[i + 1]
             x(k) == d[i + 2 * k]
             y(k) == d[i + 2 * k + 1]
             r1 == CASE cmd \in {MoveToCmd, LineToCmd, CloseCmd} ->
                           Rect(Min(r[1], x(1)), Min(r[2], y(1)),
                                Max(r[3], x(1)), Max(r[4], y(1)))
                     [] cmd = QuadToCmd ->
                           Rect(Min(r[1], Min(x(1), x(2))), Min(r[2], Min(y(1), y(2))),
                                Max(r[3], Max(x(1), x(2))), Max(r[4], Max(y(1), y(2))))
                     [] cmd = CubeToCmd ->
                           Rect(Min(r[1], Min(x(1), Min(x(2), x(3)))),
                                Min(r[2], Min(y(1), Min(y(2), y(3)))),
                                Max(r[3], Max(x(1), Min(x(2), x(3)))),
                                Max(r[4], Max(y(1), Min(y(2), y(3)))))
                     [] cmd = ArcToCmd ->
                           LET c == ellipseToCenter(start[1], start[2], d[i + 2], d[i + 3],
                                                    d[i + 4], toArcFlags(d[i + 5])[1],
                                                    toArcFlags(d[i + 5])[2], d[i + 6], d[i + 7])
                               rad == Max(d[i + 2], d[i + 3])
                           IN  Rect(Min(r[1], c[1] - rad), Min(r[2], c[2] - rad),
                                    Max(r[3], c[1] + rad), Max(r[4], c[2] + rad))
                     [] OTHER -> r
         IN  fastBoundsFrom(d, i + cmdLen(cmd),
                            <<d[i + cmdLen(cmd) - 2], d[i + cmdLen(cmd) - 1]>>, r1)

FastBounds(d) ==
    IF Len(d) < 4 THEN Rect(0, 0, 0, 0)
    ELSE fastBoundsFrom(d, 4, <<d[2], d[3]>>, Rect(d[2], d[3], d[2], d[3]))

\* The centre of every arc of d is a point of the grid.
arcCentersExact(d) ==
    \A i \in cmdStarts(d, 1) :
        d[i] = ArcToCmd =>
            centerExact(startOf(d, i), d[i + 1], d[i + 2], d[i + 3], toArcFlags(d[i + 4])[1],
                        toArcFlags(d[i + 4])[2], <<d[i + 5], d[i + 6]>>)

FastBoundsCall(u) ==
    /\ PathLen(p) <= u.max
    /\ arcCentersExact(p)
    /\ p' = p
    /\ op' = "FastBounds"
    /\ arg' = <<>>
    /\ res' = FastBounds(p)

(***************************************************************************)
(* SpecBounds: paths of lines, Beziers and arcs are built and bounded      *)
(***************************************************************************)
MaxBounds == 3

UBounds ==
    [pts |-> {<<0, 0>>, <<4, 0>>, <<0, 0 - 2>>},
     cps |-> {<<2, 2>>, <<6, 0 - 2>>},
     cps2 |-> {<<<<0, 2>>, <<2, 2>>>>, <<<<6, 2>>, <<0 - 2, 0 - 2>>>>},
     ends |-> {<<4, 0>>, <<0, 2>>},
     arcs |-> {<<2, 2, 0, FALSE, TRUE>>, <<4, 2, 0, TRUE, FALSE>>},
     aends |-> {<<4, 0>>, <<0, 0>>, <<4, 0 - 4>>},
     max |-> MaxBounds]

\* The path is built first and then bounded.
NextBounds ==
    \/ op # "FastBounds" /\ MoveToCall(UBounds)
    \/ op # "FastBounds" /\ LineToCall(UBounds)
    \/ op # "FastBounds" /\ QuadToCall(UBounds)
    \/ op # "FastBounds" /\ CubeToCall(UBounds)
    \/ op # "FastBounds" /\ ArcToCall(UBounds)
    \/ op # "FastBounds" /\ CloseCall(UBounds)
    \/ FastBoundsCall(UBounds)

SpecBounds == Init /\ [][NextBounds]_vars

\* The end points and the Bezier control points of the commands of d.
pointsOf(d) ==
    UNION {{<<d[i + 2 * k - 1], d[i + 2 * k]>> : k \in 1..((cmdLen(d[i]) - 2) \div 2)} :
              i \in {j \in cmdStarts(d, 1) : d[j] # ArcToCmd}}
    \cup {<<d[i + 5], d[i + 6]>> : i \in {j \in cmdStarts(d, 1) : d[j] = ArcToCmd}}

\* C13: the rectangle FastBounds returns contains every end point and every
\* control point of a quadratic or cubic Bezier of the path (and with them the
\* rectangle of Bounds).
C13_FastBoundsContainsPoints ==
    op = "FastBounds" =>
        \A pt \in pointsOf(p) :
            res[1] <= pt[1] /\ pt[1] <= res[3] /\ res[2] <= pt[2] /\ pt[2] <= res[4]

(***************************************************************************)
(* Direction                                                               *)
(***************************************************************************)
\* What Direction does: it panics or returns a vector.
DirectionResult(v, panics) == [dir |-> v, panics |-> panics]

\* Point.Norm(1.0): the vector of unit length in the direction of v, kept as
\* that direction; the zero vector for the zero vector.
Norm(v) == IF v = <<0, 0>> THEN <<0, 0>> ELSE Angle(v)

\* quadraticBezierDeriv at the fraction t, times its denominator.
quadraticBezierDeriv(p0, p1, p2, t) ==
    <<2 * (t[2] - t[1]) * (p1[1] - p0[1]) + 2 * t[1] * (p2[1] - p1[1]),
      2 * (t[2] - t[1]) * (p1[2] - p0[2]) + 2 * t[1] * (p2[2] - p1[2])>>

\* ellipseDeriv at theta = theta0 + t (theta1 - theta0) for the fraction t, up
\* to a positive factor.  At a whole number of quarter turns it is ellipseDeriv
\* itself; half a quarter turn further, where sine and cosine are those of the
\* two neighbours added and divided by sqrt 2, it is the sum of the two
\* neighbours.  The model asks for no other t.
ellipseDerivAt(rx, ry, phi, sweep, theta0, theta1, t) ==
    LET num == t[1] * (theta1 - theta0)
        below == theta0 + (num - (num % t[2])) \div t[2]
    IN  IF num % t[2] = 0 THEN ellipseDeriv(rx, ry, phi, sweep, below)
        ELSE Add(ellipseDeriv(rx, ry, phi, sweep, below),
                 ellipseDeriv(rx, ry, phi, sweep, below + 1))

\* The fractions t at which the direction on an arc of d is one the model
\* holds: the halves.
directionExact(d, t) ==
    \/ \A i \in cmdStarts(d, 1) : d[i] # ArcToCmd
    \/ t[2] \in {1, 2} /\ arcCentersExact(d)

\* Path.direction on the path d at index i0 and t0.
\* An empty d is read at index -1, which panics.
direction(d, i0, t0) ==
    IF Len(d) = 0 THEN DirectionResult(<<0, 0>>, TRUE)
    ELSE
      LET pointClosed == /\ d[Len(d)] = CloseCmd
                         /\ PointEquals(<<d[Len(d) - cmdLen(CloseCmd) - 2],
                                          d[Len(d) - cmdLen(CloseCmd) - 1]>>,
                                        <<d[Len(d) - 2], d[Len(d) - 1]>>)
          last == IF pointClosed THEN Len(d) - cmdLen(CloseCmd) ELSE Len(d)
          i == IF i0 = 0 THEN 4
               ELSE IF i0 < Len(d) /\ i0 = last THEN i0 - cmdLen(d[i0])
               ELSE i0
          t == IF i0 = 0 THEN <<0, 1>>
               ELSE IF i0 < Len(d) /\ i0 = last THEN <<1, 1>>
               ELSE t0
      IN  IF i < 0 \/ Len(d) <= i THEN DirectionResult(<<0, 0>>, FALSE)
          ELSE IF last < i + cmdLen(d[i + 1]) THEN DirectionResult(<<0, 0>>, FALSE)
          ELSE
            LET cmd == d[i + 1]
                start == <<d[i - 2], d[i - 1]>>
                j == i + cmdLen(cmd)
                end == <<d[j - 2], d[j - 1]>>
            IN  CASE cmd \in {LineToCmd, CloseCmd} ->
                        DirectionResult(Norm(Sub(end, start)), FALSE)
                  [] cmd = QuadToCmd ->
                        DirectionResult(
                            Norm(quadraticBezierDeriv(start, <<d[j - 4], d[j - 3]>>, end, t)),
                            FALSE)
                  [] cmd = CubeToCmd ->
                        DirectionResult(
                            Norm(cubicBezierDeriv(start, <<d[j - 6], d[j - 5]>>,
                                                  <<d[j - 4], d[j - 3]>>, end, t)),
                            FALSE)
                  [] cmd = ArcToCmd ->
                        LET sweep == toArcFlags(d[j - 3])[2]
                            c == ellipseToCenter(start[1], start[2], d[j - 6], d[j - 5],
                                                 d[j - 4], toArcFlags(d[j - 3])[1], sweep,
                                                 end[1], end[2])
                        IN  DirectionResult(
                                Norm(ellipseDerivAt(d[j - 6], d[j - 5], d[j - 4], sweep,
                                                    c[3], c[4], t)),
                                FALSE)
                  [] OTHER -> DirectionResult(<<0, 0>>, FALSE)

\* Direction's loop from index i: curSeg stays 0 and iEnd stays 0, iStart is
\* the index of the last MoveTo and iSeg that of the last command when seg
\* is 0.
RECURSIVE directionFrom(_, _, _, _, _, _)
directionFrom(d, seg, t, i, iStart, iSeg) ==
    IF i >= Len(d) THEN DirectionResult(<<0, 0>>, FALSE)
    ELSE LET cmd == d[i + 1]
             curSeg == 0
             iEnd == 0
         IN  IF cmd = MoveToCmd /\ seg < curSeg
             THEN IF iStart > iEnd THEN DirectionResult(<<0, 0>>, TRUE)
                  ELSE direction(SubSeq(d, iStart + 1, iEnd), iSeg - iStart, t)
             ELSE directionFrom(d, seg, t, i + cmdLen(cmd),
                                IF cmd = MoveToCmd THEN i ELSE iStart,
                                IF seg = curSeg THEN i ELSE iSeg)

Direction(d, seg, t) ==
    IF Len(d) <= 4 THEN DirectionResult(<<0, 0>>, FALSE)
    ELSE directionFrom(d, seg, t, 0, 0, 0)

DirectionCall(u) ==
    \E seg \in u.segs, t \in u.ts :
        /\ directionExact(p, t)
        /\ p' = p
        /\ op' = "Direction"
        /\ arg' = <<seg, t>>
        /\ res' = Direction(p, seg, t)

(***************************************************************************)
(* SpecDirection: paths are built and asked for their direction            *)
(***************************************************************************)
MaxDirection == 3

UDirection ==
    [pts |-> {<<0, 0>>, <<4, 0>>, <<4, 4>>},
     cps |-> {<<2, 2>>},
     ends |-> {<<0, 4>>},
     arcs |-> {<<2, 2, 0, FALSE, TRUE>>},
     aends |-> {<<4, 0>>, <<0, 0>>},
     segs |-> (0 - 1)..4,
     ts |-> {<<0, 1>>, <<1, 2>>, <<1, 1>>},
     max |-> MaxDirection]

\* The path is built first and then asked.
NextDirection ==
    \/ op # "Direction" /\ MoveToCall(UDirection)
    \/ op # "Direction" /\ LineToCall(UDirection)
    \/ op # "Direction" /\ QuadToCall(UDirection)
    \/ op # "Direction" /\ ArcToCall(UDirection)
    \/ op # "Direction" /\ CloseCall(UDirection)
    \/ DirectionCall(UDirection)

SpecDirection == Init /\ [][NextDirection]_vars

\* The number of commands of d that draw: all but the MoveTo commands.
numSegments(d) == Cardinality({i \in cmdStarts(d, 1) : d[i] # MoveToCmd})

\* C14: Direction(seg, t) never fails, returns a vector of unit length for
\* every seg that is a segment of the path (0 up to the number of drawing
\* commands, exclusive), and the zero vector when seg is none (negative, or
\* beyond the number of commands).
C14_Direction ==
    op = "Direction" =>
        /\ ~res.panics
        /\ arg[1] \in 0..(numSegments(p) - 1) => res.dir # <<0, 0>>
        /\ arg[1] < 0 \/ arg[1] > PathLen(p) => res.dir = <<0, 0>>

(***************************************************************************)
(* Path.RayIntersections: the ray of Windings against lines and curves     *)
(*                                                                         *)
(* The ray runs from (x, y) to the right.  A curve is met exactly in the   *)
(* model where the doubles of the code carry no rounding error that the    *)
(* result depends on: windings compares T[0] and T[1] with 0 and 1 without *)
(* a tolerance, and Into decides between two half planes.                  *)
(***************************************************************************)
\* The intersections of the ray from (x, y) towards (Inf, y) with the straight
\* segment from a to b: those of the line from (x, y) to one past the
\* segment's largest X with the segment, for a segment that reaches the ray's
\* height at or right of x.
rayLine(x, y, a, b) ==
    LET xmax == Max(a[1], b[1])
    IN  IF Interval(y, Min(a[2], b[2]), Max(a[2], b[2])) /\ x <= xmax
        THEN intersectionLineLine(<<>>, <<x, y>>, <<xmax + 1, y>>, a, b)
        ELSE <<>>

\* solveQuadraticFormula(a, b, c) for integers a, b, c: the roots it returns
\* that are no NaN, in the order it returns them, as fractions.  The root of
\* the discriminant is taken with the sign of b, the first root is -(b + q) /
\* 2a and the second c / (a x1), and the two are put in ascending order; an
\* equation without a constant term has the roots 0 and -b/a in that order.
solveQuadraticFormula(a, b, c) ==
    LET disc == b * b - 4 * a * c
        q == IF b < 0 THEN 0 - floorSqrt(disc) ELSE floorSqrt(disc)
        x1 == Frac(0 - (b + q), 2 * a)
        x2 == Frac(c * x1[2], a * x1[1])
    IN  IF Equal(a, 0)
        THEN IF Equal(b, 0) THEN (IF Equal(c, 0) THEN <<<<0, 1>>>> ELSE <<>>)
             ELSE <<Frac(0 - c, b)>>
        ELSE IF Equal(c, 0)
        THEN IF Equal(b, 0) THEN <<<<0, 1>>>> ELSE <<<<0, 1>>, Frac(0 - b, a)>>
        ELSE IF disc < 0 THEN <<>>
        ELSE IF Equal(disc, 0) THEN <<Frac(0 - b, 2 * a)>>
        ELSE IF FracLess(x2, x1) THEN <<x2, x1>> ELSE <<x1, x2>>

\* The equations solveQuadraticFormula solves without a rounding error: the
\* discriminant is a square where its root is taken, and every root is a
\* fraction with a small power of two below the line.
quadraticExact(a, b, c) ==
    LET disc == b * b - 4 * a * c
        roots == solveQuadraticFormula(a, b, c)
    IN  IF a # 0 /\ c # 0 /\ disc > 0 /\ ~IsSquare(disc) THEN FALSE
        ELSE \A i \in 1..Len(roots) : roots[i][2] \in {1, 2, 4, 8}

\* quadraticBezierPos at the fraction t: the point, its coordinates as fractions.
quadraticBezierPos(p0, p1, p2, t) ==
    LET u == t[2] - t[1]
        c(k) == u * u * p0[k] + 2 * u * t[1] * p1[k] + t[1] * t[1] * p2[k]
    IN  <<Frac(c(1), t[2] * t[2]), Frac(c(2), t[2] * t[2])>>

quadraticBezierDeriv2(p0, p1, p2) ==
    <<2 * p0[1] - 4 * p1[1] + 2 * p2[1], 2 * p0[2] - 4 * p1[2] + 2 * p2[2]>>

\* s, where the point pos of fractions lies along the line from l0 to l1: by
\* its X for a line that is more horizontal than vertical, else by its Y.
lineParam(l0, l1, pos) ==
    IF Abs(l1[2] - l0[2]) <= Abs(l1[1] - l0[1])
    THEN Frac(pos[1][1] - l0[1] * pos[1][2], pos[1][2] * (l1[1] - l0[1]))
    ELSE Frac(pos[2][1] - l0[2] * pos[2][2], pos[2][2] * (l1[2] - l0[2]))

\* The coefficients <<a, b, c>> of intersectionLineQuad.
lineQuadCoefs(l0, l1, p0, p1, p2) ==
    LET A == <<l1[2] - l0[2], l0[1] - l1[1]>>
    IN  <<Dot(A, <<p0[1] - 2 * p1[1] + p2[1], p0[2] - 2 * p1[2] + p2[2]>>),
          Dot(A, <<2 * (p1[1] - p0[1]), 2 * (p1[2] - p0[2])>>),
          Dot(A, p0) - Dot(l0, A)>>

\* The body of intersectionLineQuad's loop for one root.
lineQuadRoot(zs, l0, l1, p0, p1, p2, root) ==
    LET A == <<l1[2] - l0[2], l0[1] - l1[1]>>
        pos == quadraticBezierPos(p0, p1, p2, root)
        s == lineParam(l0, l1, pos)
        deriv == quadraticBezierDeriv(p0, p1, p2, root)
        deriv2 == quadraticBezierDeriv2(p0, p1, p2)
        endpoint == root = <<0, 1>> \/ root = <<1, 1>> \/ s = <<0, 1>> \/ s = <<1, 1>>
        atStart == root = <<0, 1>> \/ (root # <<1, 1>> /\ s = <<0, 1>>)
        k == IF endpoint
             THEN IF (0 <= PerpDot(deriv, deriv2)) = atStart THEN 1 ELSE 0 - 1
             ELSE 0
        dirb == IF deriv = <<0, 0>> THEN <<1, 0>> ELSE Angle(deriv)
    IN  IF unitInterval(root) /\ unitInterval(s)
        THEN add(zs, pos, s, root, Angle(Sub(l1, l0)), nudged(dirb, k),
                 endpoint \/ Equal(Dot(A, deriv), 0), FALSE)
        ELSE zs

\* intersectionLineQuad's loop over the roots, from the k-th.
RECURSIVE lineQuadFrom(_, _, _, _, _, _, _, _)
lineQuadFrom(zs, l0, l1, p0, p1, p2, roots, k) ==
    IF k > Len(roots) THEN zs
    ELSE lineQuadFrom(lineQuadRoot(zs, l0, l1, p0, p1, p2, roots[k]),
                      l0, l1, p0, p1, p2, roots, k + 1)

\* The line and the quadratic whose intersections are exact in the model.
lineQuadExact(l0, l1, p0, p1, p2) ==
    LET exact(q) == quadraticExact(q[1], q[2], q[3])
    IN  PointEquals(l0, l1) \/ exact(lineQuadCoefs(l0, l1, p0, p1, p2))

intersectionLineQuad(zs, l0, l1, p0, p1, p2) ==
    LET solved(q) ==
            lineQuadFrom(zs, l0, l1, p0, p1, p2, solveQuadraticFormula(q[1], q[2], q[3]), 1)
    IN  IF PointEquals(l0, l1) THEN zs
        ELSE solved(lineQuadCoefs(l0, l1, p0, p1, p2))

\* The polynomial q[1] x^3 + q[2] x^2 + q[3] x + q[4] at the fraction t, times
\* the cube of t's denominator.
polyAt(q, t) ==
    q[1] * t[1] * t[1] * t[1] + q[2] * t[1] * t[1] * t[2]
        + q[3] * t[1] * t[2] * t[2] + q[4] * t[2] * t[2] * t[2]

\* q, which has the root t, divided by x - t, up to a positive factor.
polyDeflate(q, t) ==
    LET h == q[2] * t[2] + q[1] * t[1]
        r == <<0, q[1] * t[2] * t[2], h * t[2], q[3] * t[2] * t[2] + h * t[1]>>
        g == Gcd(Gcd(Abs(r[2]), Abs(r[3])), Abs(r[4]))
    IN  IF g = 0 THEN r ELSE <<0, r[2] \div g, r[3] \div g, r[4] \div g>>

\* q divided by x - t for every root t it has among the candidates, as often
\* as t is a root.
RECURSIVE polyRest(_)
polyRest(q) ==
    LET rest(roots) ==
            IF q = <<0, 0, 0, 0>> \/ roots = {} THEN q
            ELSE polyRest(polyDeflate(q, CHOOSE t \in roots : TRUE))
    IN  rest(cubicRoots(q[1], q[2], q[3], q[4]))

\* The polynomial g is known to have no root from 0 to 1: a cubic whose four
\* Bernstein coefficients have one sign, a quadratic or a line by its values
\* at 0 and 1, its discriminant and the place of its vertex.
noUnitRoot(g) ==
    LET g0 == g[4]
        g1 == g[1] + g[2] + g[3] + g[4]
        disc == g[3] * g[3] - 4 * g[2] * g[4]
        vertexInside == IF g[2] > 0 THEN 0 < 0 - g[3] /\ 0 - g[3] < 2 * g[2]
                        ELSE 0 - g[3] < 0 /\ 2 * g[2] < 0 - g[3]
        bern == {3 * g[4], 3 * g[4] + g[3], 3 * g[4] + 2 * g[3] + g[2], 3 * g1}
    IN  IF g[1] # 0 THEN (\A c \in bern : c > 0) \/ (\A c \in bern : c < 0)
        ELSE IF g[2] # 0
        THEN g0 * g1 > 0 /\ ~(disc >= 0 /\ vertexInside /\ g[2] * g0 > 0)
        ELSE IF g[3] # 0 THEN g0 * g1 > 0
        ELSE g[4] # 0

\* The fractions of the set S in ascending order.
ascending(S) ==
    CHOOSE r \in [1..Cardinality(S) -> S] :
        \A i \in 1..(Cardinality(S) - 1) : FracLess(r[i], r[i + 1])

\* The roots from 0 to 1 among the candidates, in ascending order.
cubicUnitRoots(a, b, c, d) == ascending({t \in cubicRoots(a, b, c, d) : unitInterval(t)})

\* The line and the cubic that meet, from 0 to 1 along the cubic, at
\* candidates only, and there as the doubles of solveCubicFormula can tell:
\* each such root is a single root strictly between 0 and 1, and the point
\* lies at neither end of the line.  The roots solveCubicFormula returns are
\* a rounding error off, which is of no account for such a root.
lineCubeUnitExact(l0, l1, p0, p1, p2, p3) ==
    LET s(t) == lineParam(l0, l1, cubicBezierPos(p0, p1, p2, p3, t))
        exact(q) ==
            /\ q # <<0, 0, 0, 0>>
            /\ noUnitRoot(polyRest(q))
            /\ \A t \in {r \in cubicRoots(q[1], q[2], q[3], q[4]) : unitInterval(r)} :
                  /\ unitIntervalExclusive(t)
                  /\ polyAt(polyDeflate(q, t), t) # 0
                  /\ s(t) # <<0, 1>> /\ s(t) # <<1, 1>>
    IN  PointEquals(l0, l1) \/ exact(lineCubeCoefs(l0, l1, p0, p1, p2, p3))

\* intersectionLineCube for the line and the cubic of lineCubeUnitExact: the
\* roots outside 0 to 1 add nothing.
lineCubeUnit(zs, l0, l1, p0, p1, p2, p3) ==
    LET solved(q) ==
            lineCubeFrom(zs, l0, l1, p0, p1, p2, p3,
                         cubicUnitRoots(q[1], q[2], q[3], q[4]), 1)
    IN  IF PointEquals(l0, l1) THEN zs
        ELSE solved(lineCubeCoefs(l0, l1, p0, p1, p2, p3))

\* angleBetween(theta, lower, upper) for whole quarter turns: theta lies from
\* lower to upper, the bounds in either order and included.
angleBetween(theta, lower, upper) ==
    LET lo == Min(lower, upper)
        hi == Max(lower, upper)
    IN  angleNorm(theta - lo) <= angleNorm(hi - lo)

\* The angle of addLineArcIntersection, brought into the turn that begins at
\* the smaller of theta0 and theta1.
lineArcAngle(angle, theta0, theta1) ==
    LET lo == Min(theta0, theta1)
    IN  lo + angleNorm(angle - lo)

\* addLineArcIntersection; t is a fraction, t0 and t1 are integers, the angles
\* are whole quarter turns and dirb is a vector.
addLineArcIntersection(zs, pos, dira, dirb, t, t0, t1, angle0, theta0, theta1, tangent) ==
    LET angle == lineArcAngle(angle0, theta0, theta1)
        atT0 == t = <<t0, 1>>
        atT1 == t = <<t1, 1>>
        endpoint == atT0 \/ atT1 \/ Equal(angle, theta0) \/ Equal(angle, theta1)
        k == IF endpoint
             THEN IF (theta0 <= theta1)
                         = (Equal(angle, theta0) \/ (~Equal(angle, theta1) /\ atT0))
                  THEN 1 ELSE 0 - 1
             ELSE 0
        tt == IF atT0 THEN <<0, 1>>
              ELSE IF atT1 THEN <<1, 1>>
              ELSE Frac(t[1] - t0 * t[2], t[2] * (t1 - t0))
        s == IF Equal(angle, theta0) THEN <<0, 1>>
             ELSE IF Equal(angle, theta1) THEN <<1, 1>>
             ELSE Frac(angle - theta0, theta1 - theta0)
    IN  add(zs, pos, tt, s, dira, nudged(dirb, k), endpoint \/ tangent, FALSE)

\* A root of a line against an arc: the root, the interval t0 to t1 of the
\* line it is taken in, the point rel it gives from the centre of the arc,
\* its coordinates as fractions, and tangent.
LineArcRoot(root, t0, t1, rel, tangent) ==
    [root |-> root, t0 |-> t0, t1 |-> t1, rel |-> rel, tangent |-> tangent]

\* The elements of a sequence.
Range(s) == {s[i] : i \in 1..Len(s)}

\* The roots of solveQuadraticFormula, the second left out where it equals
\* the first.
distinctRoots(r) == IF Len(r) = 2 /\ Equal(r[1], r[2]) THEN <<r[1]>> ELSE r

\* The coefficients <<a, b, c>> of intersectionLineCircle for a line from l0
\* to the right, whose D is (1, 0).
lineCircleCoefs(l0, center, radius) ==
    LET diff == Sub(l0, center)
    IN  <<1, 2 * diff[1], Dot(diff, diff) - radius * radius>>

\* The roots of intersectionLineCircle after the snap to the ends of the line,
\* for a line from l0 to the right: roots along the line from 0 to length.
lineCircleRoots(l0, l1, center, radius) ==
    LET diff == Sub(l0, center)
        length == l1[1] - l0[1]
        q == lineCircleCoefs(l0, center, radius)
        absTo(t, n) == Frac(Abs(t[1] - n * t[2]), t[2])
        on(pt) == Equal(Dot(Sub(pt, center), Sub(pt, center)), radius * radius)
        snap(rs, pt, n) ==
            IF Len(rs) > 0 /\ on(pt)
            THEN IF Len(rs) = 1 \/ FracLess(absTo(rs[1], n), absTo(rs[2], n))
                 THEN [rs EXCEPT ![1] = <<n, 1>>]
                 ELSE [rs EXCEPT ![2] = <<n, 1>>]
            ELSE rs
        found(roots) ==
            [i \in 1..Len(roots) |->
                LineArcRoot(roots[i], 0, length,
                            <<Frac(diff[1] * roots[i][2] + roots[i][1], roots[i][2]),
                              <<diff[2], 1>>>>,
                            Len(roots) = 1)]
    IN  found(snap(snap(distinctRoots(solveQuadraticFormula(q[1], q[2], q[3])), l0, 0),
                   l1, length))

\* The coefficients <<A, B, C>> of intersectionLineEllipse for an ellipse that
\* is not rotated and a line that is more horizontal than vertical.
lineEllipseCoefs(l0, l1, center, radius) ==
    LET m0 == Sub(l0, center)
        m1 == Sub(l1, center)
        c == m0[2] - m1[2]
        d == m1[1] - m0[1]
        e == PerpDot(m0, m1)
        a == radius[1] * radius[1]
        b == radius[2] * radius[2]
    IN  <<a * c * c + b * d * d, 2 * a * c * e, a * e * e - a * b * d * d>>

\* The roots of intersectionLineEllipse for that ellipse and line: each root
\* is the X of the point from the centre.
lineEllipseRoots(l0, l1, center, radius) ==
    LET m0 == Sub(l0, center)
        m1 == Sub(l1, center)
        c == m0[2] - m1[2]
        d == m1[1] - m0[1]
        e == PerpDot(m0, m1)
        found(roots) ==
            [i \in 1..Len(roots) |->
                LineArcRoot(roots[i], m0[1], m1[1],
                            <<roots[i],
                              Frac(0 - (e * roots[i][2] + c * roots[i][1]), d * roots[i][2])>>,
                            Equal(roots[i], <<0, 1>>))]
        solved(q) == found(distinctRoots(solveQuadraticFormula(q[1], q[2], q[3])))
    IN  solved(lineEllipseCoefs(l0, l1, center, radius))

lineArcRoots(l0, l1, center, radius) ==
    IF Equal(radius[1], radius[2]) THEN lineCircleRoots(l0, l1, center, radius[1])
    ELSE lineEllipseRoots(l0, l1, center, radius)

\* Interval(root, t0, t1) of a fraction between integers.
rootInterval(h) ==
    IF h.t1 < h.t0
    THEN h.t1 * h.root[2] <= h.root[1] /\ h.root[1] <= h.t0 * h.root[2]
    ELSE h.t0 * h.root[2] <= h.root[1] /\ h.root[1] <= h.t1 * h.root[2]

\* A point of fractions whose coordinates are whole, and the point of integers.
wholePoint(f) == f[1][2] = 1 /\ f[2][2] = 1
whole(f) == <<f[1][1], f[2][1]>>

\* The point of a root lies on one axis of the ellipse, at a whole quarter turn.
onAxis(h) == wholePoint(h.rel) /\ ((h.rel[1][1] = 0) # (h.rel[2][1] = 0))

\* The body of the loops of intersectionLineCircle and intersectionLineEllipse
\* for one root whose point lies on an axis of the ellipse.
lineArcRoot(zs, l0, l1, center, radius, phi, theta0, theta1, h) ==
    LET angle == axisAngle(whole(h.rel))
        q == Add(center, whole(h.rel))
        dirb == Angle(ellipseDeriv(radius[1], radius[2], phi, theta0 <= theta1, angle))
    IN  IF rootInterval(h) /\ angleBetween(angle, theta0, theta1)
        THEN addLineArcIntersection(zs, Interpolate(q, q, <<0, 1>>), Angle(Sub(l1, l0)), dirb,
                                    h.root, h.t0, h.t1, angle, theta0, theta1, h.tangent)
        ELSE zs

RECURSIVE lineArcFrom(_, _, _, _, _, _, _, _, _, _)
lineArcFrom(zs, l0, l1, center, radius, phi, theta0, theta1, hs, k) ==
    IF k > Len(hs) THEN zs
    ELSE lineArcFrom(lineArcRoot(zs, l0, l1, center, radius, phi, theta0, theta1, hs[k]),
                     l0, l1, center, radius, phi, theta0, theta1, hs, k + 1)

\* The line and the arc whose intersections are exact in the model: the line
\* runs to the right along the x-axis, the ellipse is not rotated, the
\* equation is solved exactly, every point found on the line lies on an axis
\* of the ellipse, and where the line touches the arc it does so at an end of
\* the arc or of the line.  Where it touches inside both, Into compares the
\* direction of the arc, which is a rounding error off the line's, with it.
lineArcExact(l0, l1, center, radius, phi, theta0, theta1) ==
    LET q == IF Equal(radius[1], radius[2]) THEN lineCircleCoefs(l0, center, radius[1])
             ELSE lineEllipseCoefs(l0, l1, center, radius)
        touches(h) == h.tangent /\ angleBetween(axisAngle(whole(h.rel)), theta0, theta1)
        ends(h) ==
            LET angle == lineArcAngle(axisAngle(whole(h.rel)), theta0, theta1)
            IN  \/ h.root = <<h.t0, 1>> \/ h.root = <<h.t1, 1>>
                \/ Equal(angle, theta0) \/ Equal(angle, theta1)
    IN  /\ Equal(l0[2], l1[2]) /\ l0[1] < l1[1]
        /\ Equal(phi, 0)
        /\ quadraticExact(q[1], q[2], q[3])
        /\ \A h \in Range(lineArcRoots(l0, l1, center, radius)) :
              rootInterval(h) => onAxis(h) /\ (touches(h) => ends(h))

\* intersectionLineCircle for the line and the arc of lineArcExact.
intersectionLineCircle(zs, l0, l1, center, radius, theta0, theta1) ==
    IF PointEquals(l0, l1) THEN zs
    ELSE lineArcFrom(zs, l0, l1, center, <<radius, radius>>, 0, theta0, theta1,
                     lineCircleRoots(l0, l1, center, radius), 1)

\* intersectionLineEllipse for the line and the arc of lineArcExact.
intersectionLineEllipse(zs, l0, l1, center, radius, phi, theta0, theta1) ==
    IF Equal(radius[1], radius[2])
    THEN intersectionLineCircle(zs, l0, l1, center, radius[1], theta0, theta1)
    ELSE IF PointEquals(l0, l1) THEN zs
    ELSE lineArcFrom(zs, l0, l1, center, radius, phi, theta0, theta1,
                     lineEllipseRoots(l0, l1, center, radius), 1)

\* The ray against the quadratic Bezier from p0 by p1 to p2: the line from
\* (x, y) to one past the largest X of the three points, for a curve whose
\* points reach the ray's height at or right of x.
rayQuad(x, y, p0, p1, p2) ==
    LET ymin == Min(Min(p0[2], p1[2]), p2[2])
        ymax == Max(Max(p0[2], p1[2]), p2[2])
        xmax == Max(Max(p0[1], p1[1]), p2[1])
    IN  IF Interval(y, ymin, ymax) /\ x <= xmax
        THEN intersectionLineQuad(<<>>, <<x, y>>, <<xmax + 1, y>>, p0, p1, p2)
        ELSE <<>>

rayQuadExact(x, y, p0, p1, p2) ==
    LET ymin == Min(Min(p0[2], p1[2]), p2[2])
        ymax == Max(Max(p0[2], p1[2]), p2[2])
        xmax == Max(Max(p0[1], p1[1]), p2[1])
    IN  Interval(y, ymin, ymax) /\ x <= xmax
            => lineQuadExact(<<x, y>>, <<xmax + 1, y>>, p0, p1, p2)

\* The ray against the cubic Bezier from p0 by p1 and p2 to p3, likewise.
rayCube(x, y, p0, p1, p2, p3) ==
    LET ymin == Min(Min(p0[2], p1[2]), Min(p2[2], p3[2]))
        ymax == Max(Max(p0[2], p1[2]), Max(p2[2], p3[2]))
        xmax == Max(Max(p0[1], p1[1]), Max(p2[1], p3[1]))
    IN  IF Interval(y, ymin, ymax) /\ x <= xmax
        THEN lineCubeUnit(<<>>, <<x, y>>, <<xmax + 1, y>>, p0, p1, p2, p3)
        ELSE <<>>

rayCubeExact(x, y, p0, p1, p2, p3) ==
    LET ymin == Min(Min(p0[2], p1[2]), Min(p2[2], p3[2]))
        ymax == Max(Max(p0[2], p1[2]), Max(p2[2], p3[2]))
        xmax == Max(Max(p0[1], p1[1]), Max(p2[1], p3[1]))
    IN  Interval(y, ymin, ymax) /\ x <= xmax
            => lineCubeUnitExact(<<x, y>>, <<xmax + 1, y>>, p0, p1, p2, p3)

\* The ray against the arc from start to end: the line from (x, y) to one
\* past the centre's X plus rx, for an arc whose centre lies no further than
\* the larger radius from the ray's height and from x.  a is <<rx, ry, phi,
\* large, sweep>> as the path stores them.
rayArc(x, y, start, a, end) ==
    LET rmax == Max(a[1], a[2])
        met(c) ==
            IF Interval(y, c[2] - rmax, c[2] + rmax) /\ x <= c[1] + rmax
            THEN intersectionLineEllipse(<<>>, <<x, y>>, <<c[1] + a[1] + 1, y>>, <<c[1], c[2]>>,
                                         <<a[1], a[2]>>, a[3], c[3], c[4])
            ELSE <<>>
    IN  met(ellipseToCenter(start[1], start[2], a[1], a[2], a[3], a[4], a[5], end[1], end[2]))

rayArcExact(x, y, start, a, end) ==
    LET rmax == Max(a[1], a[2])
        exact(c) ==
            Interval(y, c[2] - rmax, c[2] + rmax) /\ x <= c[1] + rmax
                => lineArcExact(<<x, y>>, <<c[1] + a[1] + 1, y>>, <<c[1], c[2]>>,
                                <<a[1], a[2]>>, a[3], c[3], c[4])
    IN  /\ centerExact(start, a[1], a[2], a[3], a[4], a[5], end)
        /\ exact(ellipseToCenter(start[1], start[2], a[1], a[2], a[3], a[4], a[5],
                                 end[1], end[2]))

\* The arc the path stores at index i of d (Go's index): <<rx, ry, phi, large,
\* sweep>>.
arcAt(d, i) ==
    <<d[i + 2], d[i + 3], d[i + 4], toArcFlags(d[i + 5])[1], toArcFlags(d[i + 5])[2]>>

\* The intersections with the segments of d from index i, in the order of the
\* segments; start is the current point.
RECURSIVE rayFrom(_, _, _, _, _)
rayFrom(d, i, start, x, y) ==
    IF i >= Len(d) THEN <<>>
    ELSE LET cmd == d[i + 1]
             end == <<d[i + cmdLen(cmd) - 2], d[i + cmdLen(cmd) - 1]>>
         IN  (IF cmd \in {LineToCmd, CloseCmd} THEN rayLine(x, y, start, end)
              ELSE IF cmd = QuadToCmd
              THEN rayQuad(x, y, start, <<d[i + 2], d[i + 3]>>, end)
              ELSE IF cmd = CubeToCmd
              THEN rayCube(x, y, start, <<d[i + 2], d[i + 3]>>, <<d[i + 4], d[i + 5]>>, end)
              ELSE IF cmd = ArcToCmd THEN rayArc(x, y, start, arcAt(d, i), end)
              ELSE <<>>)
                 \o rayFrom(d, i + cmdLen(cmd), end, x, y)

\* Every curve of d from index i is met exactly by the ray from (x, y).
RECURSIVE rayExactFrom(_, _, _, _, _)
rayExactFrom(d, i, start, x, y) ==
    IF i >= Len(d) THEN TRUE
    ELSE LET cmd == d[i + 1]
             end == <<d[i + cmdLen(cmd) - 2], d[i + cmdLen(cmd) - 1]>>
         IN  /\ IF cmd = QuadToCmd
                THEN rayQuadExact(x, y, start, <<d[i + 2], d[i + 3]>>, end)
                ELSE IF cmd = CubeToCmd
                THEN rayCubeExact(x, y, start, <<d[i + 2], d[i + 3]>>, <<d[i + 4], d[i + 5]>>, end)
                ELSE IF cmd = ArcToCmd THEN rayArcExact(x, y, start, arcAt(d, i), end)
                ELSE TRUE
             /\ rayExactFrom(d, i + cmdLen(cmd), end, x, y)

\* Path.RayIntersections: the intersections sorted along the ray.
RayIntersections(d, x, y) == sortByX(rayFrom(d, 0, <<0, 0>>, x, y))

RECURSIVE windingsOver(_, _, _, _, _)
windingsOver(ps, x, y, n, boundary) ==
    IF Len(ps) = 0 THEN WindingsResult(n, boundary, FALSE)
    ELSE LET over(r) ==
                 IF r.panics THEN r
                 ELSE IF r.boundary THEN windingsOver(Tail(ps), x, y, n, TRUE)
                 ELSE windingsOver(Tail(ps), x, y, n + r.n, boundary)
         IN  over(windings(RayIntersections(Head(ps), x, y)))

Windings(d, x, y) == windingsOver(Split(d), x, y, 0, FALSE)

\* The paths and points for which the ray from the point meets every curve of
\* the path exactly.
rayExact(d, x, y) ==
    \A pi \in Range(Split(d)) : rayExactFrom(pi, 0, <<0, 0>>, x, y)

\* Contains with what Windings returned to it.
Contains(d, x, y, fillRule) ==
    LET returned(w) ==
            [n |-> w.n, boundary |-> w.boundary, panics |-> w.panics,
             contains |-> IF w.panics THEN FALSE
                          ELSE IF w.boundary THEN TRUE
                          ELSE Fills(fillRule, w.n)]
    IN  returned(Windings(d, x, y))

\* p.Contains(x, y, fillRule) at a point of u whose ray is one of rayExact.
ContainsCall(u) ==
    \E pt \in {q \in u.at : rayExact(p, q[1], q[2])}, fillRule \in FillRules :
        /\ p' = p
        /\ op' = "Contains"
        /\ arg' = <<pt[1], pt[2], fillRule>>
        /\ res' = Contains(p, pt[1], pt[2], fillRule)

(***************************************************************************)
(* SpecContains: polygons, polylines and curves are drawn and points are   *)
(* tested                                                                  *)
(***************************************************************************)
MaxContains == 4

UContains ==
    [pts |-> {<<0, 0>>, <<4, 0>>, <<4, 4>>},
     cps |-> {<<4, 2>>},
     cps2 |-> {<<<<4, 0>>, <<4, 4>>>>},
     ends |-> {<<0, 4>>},
     arcs |-> {<<2, 2, 0, FALSE, TRUE>>},
     aends |-> {<<0, 4>>},
     at |-> {<<3, 1>>, <<2, 2>>, <<2, 0>>, <<-2, 2>>, <<-2, 0>>},
     max |-> MaxContains]

\* The path is drawn first and then points are tested against it.
NextContains ==
    \/ op # "Contains" /\ MoveToCall(UContains)
    \/ op # "Contains" /\ LineToCall(UContains)
    \/ op # "Contains" /\ QuadToCall(UContains)
    \/ op # "Contains" /\ CubeToCall(UContains)
    \/ op # "Contains" /\ ArcToCall(UContains)
    \/ op # "Contains" /\ CloseCall(UContains)
    \/ ContainsCall(UContains)

SpecContains == Init /\ [][NextContains]_vars

\* C10: a point on the boundary of the path is on its exterior: for every
\* fill rule Contains(x, y, fillRule) is false when Windings(x, y) reports
\* boundary.
C10_BoundaryIsExterior ==
    op = "Contains" /\ res.boundary => ~res.contains

(***************************************************************************)
(* ReplaceArcs and ToPDF, for the arcs whose centre form is exact          *)
(*                                                                         *)
(* ellipseToCubicBeziers cuts an arc into n cubics, n being the ceiling of *)
(* |theta1 - theta0| / (pi / 2).  On an arc of q quarter turns that        *)
(* quotient is q up to the rounding of the doubles, and the ceiling is q   *)
(* or q + 1.  Which of the two is decided in the last bit of the angles    *)
(* ellipseToCenter returns, and the model leaves it open where the doubles *)
(* can go either way: each arc takes an entry of the sequence ups, 1 for a *)
(* quotient above q.  The entry counts in two cases of the general branch  *)
(* of ellipseToCenter.  One is a start read back from the cubics that      *)
(* replaced the arc before (EllipsePos of a quarter turn is a rounding     *)
(* error off the grid: (4, -4.9e-16) for (4, 0)); the other is an arc with *)
(* phi other than 0 (math.Cos(pi / 2) is 6.1e-17).  From a stored start    *)
(* with phi = 0, and in the branch |x2 - x1| = rx where the angles are 0,  *)
(* pi and 2 pi themselves, the quotient is q.                              *)
(***************************************************************************)
\* The steps of q quarter turns in q + 1 cubics are 1/2, 2/3 and 3/4 of a
\* quarter turn: the angles of the cubics are counted in twelfths of a quarter
\* turn and their cosines in ten-thousandths, cos(k pi / 24) for k = 0..12.
cosTwelfths ==
    <<10000, 9914, 9659, 9239, 8660, 7934, 7071, 6088, 5000, 3827, 2588, 1305, 0>>

\* math.Sincos(theta) for theta of t twelfths of a quarter turn: the cosine
\* and the sine, in ten-thousandths.
CosAt(t) ==
    LET a == t % 48
    IN  IF a <= 12 THEN cosTwelfths[a + 1]
        ELSE IF a <= 24 THEN 0 - cosTwelfths[25 - a]
        ELSE IF a <= 36 THEN 0 - cosTwelfths[a - 23]
        ELSE cosTwelfths[49 - a]

SinAt(t) == CosAt(t + 36)

\* Point.Mul
Mul(v, f) == <<v[1] * f, v[2] * f>>

\* v / d for an even d, each coordinate at the nearest integer.
Nearest(v, d) == <<(v[1] + d \div 2) \div d, (v[2] + d \div 2) \div d>>

\* EllipsePos for theta of t twelfths of a quarter turn, in ten-thousandths:
\* 10000 times the point of the grid when t is a whole number of quarter
\* turns.
EllipsePosAt(rx, ry, phi, cx, cy, t) ==
    <<10000 * cx + rx * CosAt(t) * Cos(phi) - ry * SinAt(t) * Sin(phi),
      10000 * cy + rx * CosAt(t) * Sin(phi) + ry * SinAt(t) * Cos(phi)>>

\* ellipseDeriv for theta of t twelfths of a quarter turn, in ten-thousandths.
ellipseDerivOf(rx, ry, phi, sweep, t) ==
    LET dx == (0 - rx) * SinAt(t) * Cos(phi) - ry * CosAt(t) * Sin(phi)
        dy == (0 - rx) * SinAt(t) * Sin(phi) + ry * CosAt(t) * Cos(phi)
    IN  IF ~sweep THEN <<0 - dx, 0 - dy>> ELSE <<dx, dy>>

\* v.Mul(kappa) for v in ten-thousandths and kappa k in ten-thousandths: each
\* coordinate times k / 10000, at the nearest ten-thousandth.  The whole units
\* of a coordinate and the rest are multiplied apart, so that a radius of some
\* hundred units stays within the integers.
MulKappa(v, k) ==
    <<(v[1] \div 10000) * k + ((v[1] % 10000) * k + 5000) \div 10000,
      (v[2] \div 10000) * k + ((v[2] % 10000) * k + 5000) \div 10000>>

\* kappa = sin(dtheta) (sqrt(4 + 3 tan^2(dtheta / 2)) - 1) / 3 for a step of
\* dtheta twelfths of a quarter turn, in ten-thousandths: 0.5486 for the
\* quarter turn, 0.2651, 0.3568 and 0.4036 for 1/2, 2/3 and 3/4 of it.
kappa(dtheta) ==
    CASE dtheta = 6 -> 2651
      [] dtheta = 8 -> 3568
      [] dtheta = 9 -> 4036
      [] OTHER -> 5486

\* Whether the ceiling of |theta1 - theta0| / (pi / 2) is open for the arc from
\* start to end; rounded says that start was read back from a cubic.
ceilOpen(start, rounded, rx, phi, end) ==
    IF Equal(start[1], end[1]) /\ Equal(start[2], end[2]) THEN FALSE
    ELSE IF Equal(Abs(end[1] - start[1]), rx) /\ Equal(start[2], end[2]) /\ Equal(phi, 0)
    THEN FALSE
    ELSE IF rounded THEN TRUE
    ELSE ~Equal(phi, 0)

\* ellipseToCubicBeziers's loop from step i: n steps of dtheta twelfths of a
\* quarter turn each, dtheta negative for an arc that runs clockwise.  start
\* and startDeriv are in ten-thousandths, and so are the four points of each
\* cubic.
RECURSIVE beziersFrom(_, _, _, _, _, _, _, _, _, _, _, _)
beziersFrom(i, n, start, startDeriv, rx, ry, phi, cx, cy, theta0, dtheta, sweep) ==
    IF i >= n + 1 THEN <<>>
    ELSE LET theta == theta0 + i * dtheta
             end == EllipsePosAt(rx, ry, phi, cx, cy, theta)
             endDeriv == ellipseDerivOf(rx, ry, phi, sweep, theta)
             cp1 == Add(start, MulKappa(startDeriv, kappa(Abs(dtheta))))
             cp2 == Sub(end, MulKappa(endDeriv, kappa(Abs(dtheta))))
         IN  <<<<start, cp1, cp2, end>>>>
             \o beziersFrom(i + 1, n, end, endDeriv, rx, ry, phi, cx, cy, theta0, dtheta, sweep)

\* For the arcs whose centre form is exact; up is 1 when math.Ceil gives one
\* more than the quarter turns of the arc, and 0 otherwise.
ellipseToCubicBeziers(start, rx, ry, phi, large, sweep, end, up) ==
    LET cut(c, n) ==
            LET dtheta == IF n = 0 THEN 0 ELSE (12 * Abs(c[4] - c[3])) \div n
            IN  beziersFrom(1, n, Mul(start, 10000),
                            ellipseDerivOf(rx, ry, phi, sweep, 12 * c[3]),
                            rx, ry, phi, c[1], c[2], 12 * c[3],
                            IF ~sweep THEN 0 - dtheta ELSE dtheta, sweep)
        beziers(c) == cut(c, IF c[4] = c[3] THEN 0 ELSE Abs(c[4] - c[3]) + up)
    IN  beziers(ellipseToCenter(start[1], start[2], rx, ry, phi, large, sweep,
                                end[1], end[2]))

\* p.CubeTo(cp1, cp2, end) for the cubic b of ellipseToCubicBeziers, whose
\* points <<start, cp1, cp2, end>> are in ten-thousandths and whose start is
\* p.Pos().  CubeTo's tests for a cubic that is a point or a line are made on
\* the points as computed, taken in hundredths, and not on the points of the
\* grid; what is stored is each point at the nearest point of the grid, so
\* that a point of the code lies within half a unit of the model's.
CubeToAt(d, b) ==
    LET start == Nearest(b[1], 100)
        cp1 == Nearest(b[2], 100)
        cp2 == Nearest(b[3], 100)
        end == Nearest(b[4], 100)
    IN  IF PointEquals(start, end) /\ PointEquals(start, cp1) /\ PointEquals(start, cp2) THEN d
        ELSE IF /\ ~PointEquals(start, end)
                /\ cubeCPOnLine(start, cp1, end)
                /\ cubeCPOnLine(start, cp2, end)
        THEN LineTo(d, Nearest(b[4], 10000)[1], Nearest(b[4], 10000)[2])
        ELSE startSubpath(d)
             \o <<CubeToCmd, Nearest(b[2], 10000)[1], Nearest(b[2], 10000)[2],
                  Nearest(b[3], 10000)[1], Nearest(b[3], 10000)[2],
                  Nearest(b[4], 10000)[1], Nearest(b[4], 10000)[2], CubeToCmd>>

RECURSIVE cubesTo(_, _)
cubesTo(d, bs) == IF Len(bs) = 0 THEN d ELSE cubesTo(CubeToAt(d, bs[1]), Tail(bs))

\* An arc function that returns nil, written <<>>: no replacement is performed.
arcToNil(start, rx, ry, phi, large, sweep, end, up) == <<>>

arcToCube(start, rx, ry, phi, large, sweep, end, up) ==
    cubesTo(MoveTo(<<>>, start[1], start[2]),
            ellipseToCubicBeziers(start, rx, ry, phi, large, sweep, end, up))

\* p.Join(q) for the path q of arcToCube.  Where q is welded onto p its first
\* command passes p.CubeTo (path.go:319) from the position q starts at, with
\* the points arcToCube's own CubeTo has tested: the tests come out the same
\* and the CubeTo is appended as it is stored in q.
JoinCubes(pd, qd) ==
    IF Empty(qd) THEN pd
    ELSE IF Empty(pd) THEN qd
    ELSE IF \/ pd[Len(pd)] = CloseCmd
            \/ ~Equal(pd[Len(pd) - 2], qd[2])
            \/ ~Equal(pd[Len(pd) - 1], qd[3])
    THEN pd \o qd
    ELSE LET d == SubSeq(qd, cmdLen(MoveToCmd) + 1, Len(qd))
             p1 == IF d[1] = CubeToCmd THEN pd \o SubSeq(d, 1, cmdLen(CubeToCmd))
                   ELSE joinFirst(pd, d)
         IN  repairClose(p1 \o SubSeq(d, cmdLen(d[1]) + 1, Len(d)), Len(p1), StartPos(p1))

\* replace's loop as ReplaceArcs runs it, with arcToCube for arc and nil for
\* line, quad and cube, from Go index i.  start is read back from the stream
\* at the end of each round: after a replaced arc it is the end of the last
\* cubic where that is within Epsilon of the arc's end (LineTo adds nothing
\* then), and rounded is TRUE; after any other command it is the stored end.
\* ups holds one entry for each arc from i on.
RECURSIVE replaceFrom(_, _, _, _, _)
replaceFrom(d, i, start, rounded, ups) ==
    IF i >= Len(d) THEN d
    ELSE LET cmd == d[i + 1]
             flags == toArcFlags(d[i + 5])
             end == <<d[i + 6], d[i + 7]>>
             r == <<MoveToCmd, end[1], end[2], MoveToCmd>>
                  \o SubSeq(d, i + cmdLen(cmd) + 1, Len(d))
             next(p2, i2, rounded2) ==
                 replaceFrom(p2, i2, <<p2[i2 - 2], p2[i2 - 1]>>, rounded2,
                             IF cmd = ArcToCmd THEN Tail(ups) ELSE ups)
             lined(p1, rounded2) == next(Join(p1, r), Len(p1), rounded2)
             joined(p0, cubes) ==
                 lined(LineTo(p0, end[1], end[2]),
                       IF ~PointEquals(Pos(p0), end) THEN FALSE
                       ELSE IF cubes THEN TRUE
                       ELSE rounded)
             replaced(q) ==
                 IF q # <<>>
                 THEN joined(JoinCubes(SubSeq(d, 1, i), q), Len(q) > cmdLen(MoveToCmd))
                 ELSE next(d, i + cmdLen(cmd), FALSE)
         IN  replaced(IF cmd = ArcToCmd
                      THEN arcToCube(start, d[i + 2], d[i + 3], d[i + 4],
                                     flags[1], flags[2], end,
                                     IF ceilOpen(start, rounded, d[i + 2], d[i + 4], end)
                                     THEN Head(ups) ELSE 0)
                      ELSE <<>>)

\* ReplaceArcs of the stream d; ups[k] is 1 when the quotient of the k-th arc
\* of d comes out above its quarter turns.
ReplaceArcs(d, ups) == replaceFrom(d, 0, <<0, 0>>, FALSE, ups)

\* The sequences of one entry, 0 or 1, for each arc of d.
roundings(d) == [1..numArcs(d) -> {0, 1}]

quadraticToCubicBezier(p0, p1, p2) ==
    <<Interpolate(p0, p1, <<2, 3>>), Interpolate(p2, p1, <<2, 3>>)>>

PDFResult(ops, panics) == [ops |-> ops, panics |-> panics]

\* ToPDF's loop over the stream d from Go index i, after the operators ops;
\* pos is (x, y).  An operator is its letter after its operands, which are
\* numbers here and not yet their decimal text.
RECURSIVE pdfFrom(_, _, _, _)
pdfFrom(d, i, pos, ops) ==
    IF i >= Len(d) THEN PDFResult(ops, "")
    ELSE LET cmd == d[i + 1]
             n == i + cmdLen(cmd)
         IN  CASE cmd = MoveToCmd ->
                    pdfFrom(d, n, <<d[i + 2], d[i + 3]>>, ops \o <<<<d[i + 2], d[i + 3], "m">>>>)
               [] cmd = LineToCmd ->
                    pdfFrom(d, n, <<d[i + 2], d[i + 3]>>, ops \o <<<<d[i + 2], d[i + 3], "l">>>>)
               [] cmd = QuadToCmd ->
                    LET c == quadraticToCubicBezier(pos, <<d[i + 2], d[i + 3]>>,
                                                    <<d[i + 4], d[i + 5]>>)
                    IN  pdfFrom(d, n, <<d[i + 4], d[i + 5]>>,
                                ops \o <<<<c[1], c[2], d[i + 4], d[i + 5], "c">>>>)
               [] cmd = CubeToCmd ->
                    pdfFrom(d, n, <<d[i + 6], d[i + 7]>>,
                            ops \o <<<<<<d[i + 2], d[i + 3]>>, <<d[i + 4], d[i + 5]>>,
                                       d[i + 6], d[i + 7], "c">>>>)
               [] cmd = ArcToCmd -> PDFResult(ops, "arcs should have been replaced")
               [] cmd = CloseCmd ->
                    pdfFrom(d, n, <<d[i + 2], d[i + 3]>>, ops \o <<<<"h">>>>)
               [] OTHER -> pdfFrom(d, n, pos, ops)

\* ToPDF of the stream d, with ups as in ReplaceArcs.
ToPDF(d, ups) ==
    IF Empty(d) THEN PDFResult(<<>>, "")
    ELSE pdfFrom(ReplaceArcs(d, ups), 0, <<0, 0>>, <<>>)

\* p.ArcTo for an arc whose centre form is exact.
ArcToCenterCall(u) ==
    \E a \in u.arcs, pt \in u.aends :
        LET d == ArcTo(p, a[1], a[2], a[3], a[4], a[5], pt[1], pt[2])
            n == Len(d)
        IN  /\ arcExact(p, a[1], a[2], a[3], pt[1], pt[2])
            /\ d # p /\ d[n] = ArcToCmd
            /\ centerExact(Pos(p), d[n - 6], d[n - 5], d[n - 4], a[4], a[5], pt)
            /\ PathLen(d) <= u.max
            /\ Returns(d, "ArcTo", <<a, pt>>, <<>>)

\* p.ReplaceArcs(), which leaves p as it is.
ReplaceArcsCall(u) ==
    \E ups \in roundings(p) :
        /\ arcCentersExact(p)
        /\ p' = p
        /\ op' = "ReplaceArcs" /\ arg' = <<>>
        /\ res' = ReplaceArcs(p, ups)

\* p.ToPDF()
ToPDFCall(u) ==
    \E ups \in roundings(p) :
        /\ arcCentersExact(p)
        /\ p' = p
        /\ op' = "ToPDF" /\ arg' = <<>>
        /\ res' = ToPDF(p, ups)

(***************************************************************************)
(* SpecPDF: ReplaceArcs and ToPDF of the paths of the builder              *)
(***************************************************************************)
MaxPDF == 4

UPDF ==
    [pts |-> {<<0, 0>>, <<4, 0>>},
     cps |-> {<<2, 2>>},
     ends |-> {<<0, 4>>},
     arcs |-> {<<2, 2, 0, FALSE, TRUE>>, <<4, 2, 0, TRUE, FALSE>>, <<4, 2, 90, FALSE, TRUE>>},
     aends |-> {<<4, 0>>, <<2, 2>>, <<2, 0>>, <<2, 4>>},
     max |-> MaxPDF]

built == op \notin {"ReplaceArcs", "ToPDF"}

NextPDF ==
    \/ built /\ MoveToCall(UPDF)
    \/ built /\ LineToCall(UPDF)
    \/ built /\ QuadToCall(UPDF)
    \/ built /\ ArcToCenterCall(UPDF)
    \/ built /\ CloseCall(UPDF)
    \/ built /\ ReplaceArcsCall(UPDF)
    \/ built /\ ToPDFCall(UPDF)

SpecPDF == Init /\ [][NextPDF]_vars

\* The commands of the stream d, from Go index i.
RECURSIVE cmdsFrom(_, _)
cmdsFrom(d, i) == IF i >= Len(d) THEN {} ELSE {d[i + 1]} \cup cmdsFrom(d, i + cmdLen(d[i + 1]))

\* C15: ReplaceArcs returns a path without an ArcTo command, and ToPDF never
\* fails with "arcs should have been replaced" and emits only the operators m,
\* l, c and h.
C15_NoArcsLeft ==
    /\ op = "ReplaceArcs" => ArcToCmd \notin cmdsFrom(res, 0)
    /\ op = "ToPDF" =>
          /\ res.panics = ""
          /\ \A k \in 1..Len(res.ops) : res.ops[k][Len(res.ops[k])] \in {"m", "l", "c", "h"}

\* A path with a quadratic curve and two arcs stored with phi = 0 has been
\* written as PDF, and an arc whose start was read back from the cubics of the
\* arc before it was cut into one cubic more than its quarter turns.
C15_Witness ==
    /\ op = "ToPDF"
    /\ QuadToCmd \in cmdsFrom(p, 0)
    /\ numArcs(p) = 2
    /\ \A i \in cmdStarts(p, 1) : p[i] = ArcToCmd => Equal(p[i + 3], 0)
    /\ res.panics = ""
    /\ \E k \in 1..Len(res.ops) : res.ops[k][Len(res.ops[k])] = "c"
    /\ Len(res.ops) > Len(ToPDF(p, [k \in 1..numArcs(p) |-> 0]).ops)

(***************************************************************************)
(* Length and SplitAt                                                      *)
(*                                                                         *)
(* Lengths of lines are exact where every distance taken is between two    *)
(* points on a line parallel to an axis; the offsets of SplitAt are        *)
(* integers.  The length of a curve is no number of the model: it is kept  *)
(* as the call that computes it.                                           *)
(***************************************************************************)
\* Point.Length
PointLength(v) == Sqrt(Dot(v, v))

\* The length of a curve, kept as the call that computes it.
CurveLength(name, args) == [length |-> name, args |-> args]

\* A length: the sum of the number len and of the lengths of the curves.
PathLength(len, curves) == [len |-> len, curves |-> curves]

addLengths(a, b) == PathLength(a.len + b.len, a.curves \o b.curves)

\* quadraticBezierLength: that of the straight line when p1 is in the middle
\* of p0 and p2 (A = 0), and the closed form otherwise.
quadraticBezierLength(p0, p1, p2) ==
    LET a == Add(Sub(p0, <<2 * p1[1], 2 * p1[2]>>), p2)
    IN  IF 4 * Dot(a, a) = 0 THEN PathLength(PointLength(Sub(p2, p0)), <<>>)
        ELSE PathLength(0, <<CurveLength("quadraticBezierLength", <<p0, p1, p2>>)>>)

\* The end point of the command of d at Go index i.
endAt(d, i) == <<d[i + cmdLen(d[i + 1]) - 2], d[i + cmdLen(d[i + 1]) - 1]>>

\* theta1 and theta2 of the arc of d at Go index i that begins at start.
arcAngles(d, i, start) ==
    SubSeq(ellipseToCenter(start[1], start[2], d[i + 2], d[i + 3], d[i + 4],
                           toArcFlags(d[i + 5])[1], toArcFlags(d[i + 5])[2],
                           d[i + 6], d[i + 7]), 3, 4)

\* What the command of d at Go index i, which begins at start, adds to the
\* length.
cmdLength(d, i, start) ==
    CASE d[i + 1] = MoveToCmd -> PathLength(0, <<>>)
      [] d[i + 1] \in {LineToCmd, CloseCmd} ->
            PathLength(PointLength(Sub(endAt(d, i), start)), <<>>)
      [] d[i + 1] = QuadToCmd ->
            quadraticBezierLength(start, <<d[i + 2], d[i + 3]>>, endAt(d, i))
      [] d[i + 1] = CubeToCmd ->
            PathLength(0, <<CurveLength("cubicBezierLength",
                                        <<start, <<d[i + 2], d[i + 3]>>,
                                          <<d[i + 4], d[i + 5]>>, endAt(d, i)>>)>>)
      [] d[i + 1] = ArcToCmd ->
            PathLength(0, <<CurveLength("ellipseLength",
                                        <<d[i + 2], d[i + 3]>> \o arcAngles(d, i, start))>>)
      [] OTHER -> PathLength(0, <<>>)

\* Path.Length's loop from Go index i.
RECURSIVE lengthFrom(_, _, _)
lengthFrom(d, i, start) ==
    IF i >= Len(d) THEN PathLength(0, <<>>)
    ELSE addLengths(cmdLength(d, i, start),
                    lengthFrom(d, i + cmdLen(d[i + 1]), endAt(d, i)))

Length(d) == lengthFrom(d, 0, <<0, 0>>)

\* sort.Float64s
RECURSIVE insertFloat(_, _)
insertFloat(ts, t) ==
    IF Len(ts) = 0 THEN <<t>>
    ELSE IF t < ts[1] THEN <<t>> \o ts
    ELSE <<ts[1]>> \o insertFloat(Tail(ts), t)

RECURSIVE sortFloats(_)
sortFloats(ts) == IF Len(ts) = 0 THEN <<>> ELSE insertFloat(sortFloats(Tail(ts)), ts[1])

\* SplitAt's variables: the index j into ts, the position T along the path,
\* the pieces qs pushed so far and the piece q that is being built.  curve is
\* empty until a cut is due on or after a curve: the length of the curve is
\* then asked for, and curve is the call that computes it.
SplitAtState(j, T, qs, q) == [j |-> j, T |-> T, qs |-> qs, q |-> q, curve |-> <<>>]

\* push() and the MoveTo that follows it.
pushAt(st, pos) ==
    SplitAtState(st.j + 1, st.T, Append(st.qs, st.q), MoveTo(<<>>, pos[1], pos[2]))

\* The inner for of the LineTo and Close case: the cuts on the segment from
\* start to end of length dT.  Returns the state and Tcurve.
RECURSIVE cutLine(_, _, _, _, _, _)
cutLine(ts, st, start, end, dT, Tcurve) ==
    IF st.j < Len(ts) /\ st.T < ts[st.j + 1] /\ ts[st.j + 1] <= st.T + dT
    THEN LET tpos == Frac(ts[st.j + 1] - st.T, dT)
             ip == Interpolate(start, end, tpos)
             pos == <<ip[1][1] \div ip[1][2], ip[2][1] \div ip[2][2]>>
         IN  cutLine(ts, pushAt([st EXCEPT !.q = LineTo(st.q, pos[1], pos[2])], pos),
                     start, end, dT, ts[st.j + 1])
    ELSE <<st, Tcurve>>

\* The LineTo and Close case of SplitAt's switch, on the segment from start to
\* end.
splitAtLine(ts, st, start, end) ==
    LET dT == PointLength(Sub(end, start))
        c == cutLine(ts, st, start, end, dT, st.T)
    IN  IF st.j = Len(ts) THEN [st EXCEPT !.q = LineTo(st.q, end[1], end[2])]
        ELSE [c[1] EXCEPT
                !.q = IF c[2] < st.T + dT THEN LineTo(c[1].q, end[1], end[2]) ELSE c[1].q,
                !.T = st.T + dT]

\* The cases of the curves: past the last cut the curve is copied; before it
\* the length of the curve is asked for.
splitAtCurve(ts, st, copied, args) ==
    IF st.j = Len(ts) THEN [st EXCEPT !.q = copied]
    ELSE [st EXCEPT !.curve = <<CurveLength("invSpeedPolynomialChebyshevApprox", args)>>]

\* SplitAt's switch on the command cmd at Go index i, which begins at start;
\* the coordinates are read from pd.
splitAtCmd(pd, cmd, ts, i, start, st) ==
    CASE cmd = MoveToCmd -> st
      [] cmd \in {LineToCmd, CloseCmd} -> splitAtLine(ts, st, start, <<pd[i + 2], pd[i + 3]>>)
      [] cmd = QuadToCmd ->
            splitAtCurve(ts, st, QuadTo(st.q, pd[i + 2], pd[i + 3], pd[i + 4], pd[i + 5]),
                         <<"quadraticBezierDeriv", start, <<pd[i + 2], pd[i + 3]>>,
                           <<pd[i + 4], pd[i + 5]>>>>)
      [] cmd = CubeToCmd ->
            splitAtCurve(ts, st, CubeTo(st.q, pd[i + 2], pd[i + 3], pd[i + 4], pd[i + 5],
                                        pd[i + 6], pd[i + 7]),
                         <<"cubicBezierDeriv", start, <<pd[i + 2], pd[i + 3]>>,
                           <<pd[i + 4], pd[i + 5]>>, <<pd[i + 6], pd[i + 7]>>>>)
      [] cmd = ArcToCmd ->
            splitAtCurve(ts, st, ArcTo(st.q, pd[i + 2], pd[i + 3], RadToDeg(pd[i + 4]),
                                       toArcFlags(pd[i + 5])[1], toArcFlags(pd[i + 5])[2],
                                       pd[i + 6], pd[i + 7]),
                         <<"ellipseDeriv", start, pd[i + 2], pd[i + 3], pd[i + 4], pd[i + 5],
                           <<pd[i + 6], pd[i + 7]>>>>)
      [] OTHER -> st

\* The loop over the commands of the subpath ps from Go index i.  pd is the
\* stream of the whole path: the coordinates are read from it, at the index
\* into ps.
RECURSIVE splitAtSub(_, _, _, _, _, _)
splitAtSub(pd, ps, ts, i, start, st) ==
    IF i >= Len(ps) \/ st.curve # <<>> THEN st
    ELSE splitAtSub(pd, ps, ts, i + cmdLen(ps[i + 1]),
                    <<pd[i + cmdLen(ps[i + 1]) - 2], pd[i + cmdLen(ps[i + 1]) - 1]>>,
                    splitAtCmd(pd, ps[i + 1], ts, i, start, st))

\* The loop over p.Split().
RECURSIVE splitAtOver(_, _, _, _)
splitAtOver(pd, pss, ts, st) ==
    IF Len(pss) = 0 THEN st
    ELSE splitAtOver(pd, Tail(pss), ts, splitAtSub(pd, pss[1], ts, 0, <<0, 0>>, st))

\* SplitAt's variables when its loops have ended, for cuts ts0 that are not
\* empty.
splitAtEnd(d, ts0) ==
    LET sorted == sortFloats(ts0)
        ts == IF sorted[1] = 0 THEN Tail(sorted) ELSE sorted
        q0 == IF 0 < Len(d) /\ d[1] = MoveToCmd THEN MoveTo(<<>>, d[2], d[3]) ELSE <<>>
    IN  splitAtOver(d, Split(d), ts, SplitAtState(0, 0, <<>>, q0))

\* p.SplitAt(ts...): the list of the pieces or, where a cut is due on or after
\* a curve, the call for the length of that curve in their place.
SplitAt(d, ts0) ==
    IF Len(ts0) = 0 THEN <<d>>
    ELSE LET st == splitAtEnd(d, ts0)
         IN  IF st.curve # <<>> THEN st.curve
             ELSE IF cmdLen(MoveToCmd) < Len(st.q) THEN Append(st.qs, st.q) ELSE st.qs

\* The end points of the commands of d, in order.
RECURSIVE vertices(_, _)
vertices(d, i) ==
    IF i >= Len(d) THEN <<>>
    ELSE <<<<d[i + cmdLen(d[i + 1]) - 2], d[i + cmdLen(d[i + 1]) - 1]>>>>
             \o vertices(d, i + cmdLen(d[i + 1]))

\* The pairs of points between which a distance is taken for the commands of
\* ps from Go index i, the coordinates read from d at the index into ps: start
\* and end of each LineTo and Close, and of each quadratic Bezier that is a
\* straight line.
RECURSIVE lineSegments(_, _, _, _)
lineSegments(d, ps, i, start) ==
    IF i >= Len(ps) THEN {}
    ELSE LET cmd == ps[i + 1]
             j == i + cmdLen(cmd)
             end == <<d[j - 2], d[j - 1]>>
             straight == /\ cmd = QuadToCmd
                         /\ quadraticBezierLength(start, <<d[i + 2], d[i + 3]>>, end).curves = <<>>
         IN  (IF cmd \in {LineToCmd, CloseCmd} \/ straight THEN {<<start, end>>} ELSE {})
                 \cup lineSegments(d, ps, j, end)

\* The distances that Length and SplitAt take on d are between two points on a
\* line parallel to an axis: for the commands of d and, for each subpath ps,
\* for the points of d at the indices of the commands of ps.
axisParallel(d) ==
    LET par(s) == s[1][1] = s[2][1] \/ s[1][2] = s[2][2]
        pss == Split(d)
    IN  /\ \A s \in lineSegments(d, d, 0, <<0, 0>>) : par(s)
        /\ \A n \in 1..Len(pss) : \A s \in lineSegments(d, pss[n], 0, <<0, 0>>) : par(s)

\* The pieces of p.SplitAt(ts...) are paths of the model: the distances taken
\* are exact and no cut is due on or after a curve.
splitAtExact(d, ts) ==
    /\ axisParallel(d)
    /\ Len(ts) > 0 => splitAtEnd(d, ts).curve = <<>>

\* p.SplitAt(ts...), which leaves p as it is.
SplitAtCall(u) ==
    \E ts \in u.ts :
        /\ splitAtExact(p, ts)
        /\ p' = p
        /\ op' = "SplitAt" /\ arg' = ts
        /\ res' = SplitAt(p, ts)

(***************************************************************************)
(* SpecSplitAt: SplitAt of the paths of lines and quadratic Beziers        *)
(***************************************************************************)
MaxSplitAt == 5

USplitAt ==
    [pts |-> {<<0, 0>>, <<4, 0>>, <<4, 4>>, <<0, 4>>},
     cps |-> {<<2, 2>>},
     ends |-> {<<0, 4>>},
     ts |-> {<<>>, <<0>>, <<2>>, <<4>>, <<6, 2>>, <<20>>},
     max |-> MaxSplitAt]

NextSplitAt ==
    \/ op # "SplitAt" /\ MoveToCall(USplitAt)
    \/ op # "SplitAt" /\ LineToCall(USplitAt)
    \/ op # "SplitAt" /\ QuadToCall(USplitAt)
    \/ op # "SplitAt" /\ CloseCall(USplitAt)
    \/ op # "SplitAt" /\ SplitAtCall(USplitAt)

SpecSplitAt == Init /\ [][NextSplitAt]_vars

RECURSIVE sumLengths(_)
sumLengths(qs) ==
    IF Len(qs) = 0 THEN PathLength(0, <<>>)
    ELSE addLengths(Length(qs[1]), sumLengths(Tail(qs)))

\* The point pt lies on a LineTo or Close segment of d, or is a point of d.
onPath(d, pt) ==
    LET vs == vertices(d, 0)
    IN  \/ \E k \in 1..Len(vs) : vs[k] = pt
        \/ \E k \in 1..(Len(vs) - 1) :
              /\ PerpDot(Sub(vs[k + 1], vs[k]), Sub(pt, vs[k])) = 0
              /\ Interval(pt[1], vs[k][1], vs[k + 1][1])
              /\ Interval(pt[2], vs[k][2], vs[k + 1][2])

\* C17: the pieces of SplitAt on a flat path have, together, the length of the
\* path; every vertex of a piece lies on the path; each piece starts where the
\* piece before it ends; and no piece holds a Close.
C17_SplitAtTracesPath ==
    op = "SplitAt" /\ Len(arg) > 0 =>
        /\ Length(p).curves = <<>> => sumLengths(res) = Length(p)
        /\ \A k \in 1..Len(res) :
              /\ \A n \in 1..Len(vertices(res[k], 0)) : onPath(p, vertices(res[k], 0)[n])
              /\ CloseCmd \notin cmdsFrom(res[k], 0)
        /\ \A k \in 1..(Len(res) - 1) : Pos(res[k]) = <<res[k + 1][2], res[k + 1][3]>>

(***************************************************************************)
(* Dash, on flat paths with integer dashes and offsets                     *)
(***************************************************************************)
Closed(d) == 0 < Len(d) /\ d[Len(d)] = CloseCmd

RECURSIVE sumOf(_)
sumOf(d) == IF Len(d) = 0 THEN 0 ELSE d[1] + sumOf(Tail(d))

\* dashCanonical's "remove zeros except first and last", from Go index i.
RECURSIVE dropInnerZeros(_, _)
dropInnerZeros(d, i) ==
    IF i >= Len(d) - 1 THEN d
    ELSE IF Equal(d[i + 1], 0)
    THEN dropInnerZeros(SubSeq([d EXCEPT ![i] = d[i] + d[i + 2]], 1, i)
                            \o SubSeq(d, i + 3, Len(d)), i)
    ELSE dropInnerZeros(d, i + 1)

\* dashCanonical's "remove repeated patterns".
RECURSIVE dropRepeats(_)
dropRepeats(d) ==
    LET mid == Len(d) \div 2
    IN  IF Len(d) % 2 = 0 /\ \A i \in 1..mid : Equal(d[i], d[mid + i])
        THEN dropRepeats(SubSeq(d, 1, mid))
        ELSE d

\* dashCanonical after the inner zeros are removed: <<offset, d>>.
canonicalEnds(offset, d) ==
    LET n == Len(d)
        firstZero == Equal(d[1], 0)
        o1 == IF firstZero /\ n >= 3 THEN offset - d[2] ELSE offset
        d1 == IF firstZero /\ n >= 3
              THEN SubSeq([d EXCEPT ![n] = d[n] + d[2]], 3, n) ELSE d
        n1 == Len(d1)
        lastZero == Equal(d1[n1], 0)
        o2 == IF lastZero /\ n1 >= 3 THEN o1 + d1[n1 - 1] ELSE o1
        d2 == IF lastZero /\ n1 >= 3
              THEN SubSeq([d1 EXCEPT ![1] = d1[1] + d1[n1 - 1]], 1, n1 - 2) ELSE d1
    IN  IF firstZero /\ n < 3 THEN <<0, <<0>>>>
        ELSE IF lastZero /\ n1 < 3 THEN <<0, <<>>>>
        ELSE IF \E i \in 1..Len(d2) : d2[i] < 0 \/ Equal(d2[i], 0) THEN <<0, <<0>>>>
        ELSE <<o2, dropRepeats(d2)>>

\* dashCanonical that gives the pattern back as it is.
dashKept(offset, d) == <<offset, d>>

dashCanonical(offset, d) ==
    IF Len(d) = 0 THEN <<0, <<>>>> ELSE canonicalEnds(offset, dropInnerZeros(d, 1))

\* dashStart's first loop: <<i0, offset>>, i0 being Go's index.
RECURSIVE dashStartFrom(_, _, _)
dashStartFrom(offset, d, i0) ==
    IF d[i0 + 1] <= offset
    THEN dashStartFrom(offset - d[i0 + 1], d, IF i0 + 1 = Len(d) THEN 0 ELSE i0 + 1)
    ELSE <<i0, offset>>

\* dashStart in which a negative offset is first brought into one period.
dashStartWrapped(offset, d) ==
    LET s == dashStartFrom(offset % sumOf(d), d, 0)
    IN  <<s[1], 0 - s[2]>>

\* <<i0, pos0>>
dashStart(offset, d) ==
    LET s == dashStartFrom(offset, d, 0)
    IN  <<s[1], IF s[2] < 0 THEN 0 - (sumOf(d) + s[2]) ELSE 0 - s[2]>>

\* Dash's loop that collects the cuts t of a subpath of the given length:
\* <<t, i>>.
RECURSIVE dashCuts(_, _, _, _, _)
dashCuts(d, length, pos, i, t) ==
    IF pos + d[i + 1] < length
    THEN dashCuts(d, length, pos + d[i + 1], IF i + 1 = Len(d) THEN 0 ELSE i + 1,
                  IF 0 < pos + d[i + 1] THEN Append(t, pos + d[i + 1]) ELSE t)
    ELSE <<t, i>>

\* qd.Append(pd[j]) for j = j0, j0 + 2, ... below len(pd) - 1.
RECURSIVE appendDashes(_, _, _)
appendDashes(qd, pd, j) ==
    IF j < Len(pd) - 1 THEN appendDashes(PathAppend(qd, pd[j + 1]), pd, j + 2) ELSE qd

\* The dashes of the subpath ps.
dashSubpath(ps, d, i0, pos0) ==
    LET c == dashCuts(d, Length(ps).len, pos0, i0, <<>>)
        t == c[1]
        endsInDash == c[2] % 2 = 0
        j0 == IF (Len(t) % 2 = 1 /\ endsInDash) \/ (Len(t) % 2 = 0 /\ ~endsInDash)
              THEN 1 ELSE 0
        pd == SplitAt(ps, t)
        qd == appendDashes(<<>>, pd, j0)
    IN  IF endsInDash
        THEN IF Closed(ps) THEN Join(pd[Len(pd)], qd) ELSE PathAppend(qd, pd[Len(pd)])
        ELSE qd

RECURSIVE dashOver(_, _, _, _, _)
dashOver(q, pss, d, i0, pos0) ==
    IF Len(pss) = 0 THEN q
    ELSE dashOver(PathAppend(q, dashSubpath(pss[1], d, i0, pos0)), Tail(pss), d, i0, pos0)

\* The lengths of the curves of the subpaths of pd, kept as calls.
dashCurves(pd) == Length(pd).curves

\* p.Dash(offset, d...): the dashes or, where a subpath has a curve, the calls
\* for the lengths of the curves in their place.
Dash(pd, offset0, d0) ==
    LET c == dashCanonical(offset0, d0)
        d == IF Len(c[2]) % 2 = 1 THEN c[2] \o c[2] ELSE c[2]
        s == dashStart(c[1], d)
    IN  IF Len(c[2]) = 0 THEN pd
        ELSE IF Len(c[2]) = 1 /\ c[2][1] = 0 THEN <<>>
        ELSE IF dashCurves(pd) # <<>> THEN dashCurves(pd)
        ELSE dashOver(<<>>, Split(pd), d, s[1], s[2])

\* p.Dash(offset, d...), which leaves p as it is.
DashCall(u) ==
    \E offset \in u.offsets, d \in u.dashes :
        /\ axisParallel(p) /\ dashCurves(p) = <<>>
        /\ p' = p
        /\ op' = "Dash" /\ arg' = <<offset, d>>
        /\ res' = Dash(p, offset, d)

(***************************************************************************)
(* SpecDash: Dash of the flat paths of the builder                         *)
(***************************************************************************)
MaxDash == 3

\* The offsets differ from those of Dash's arguments by up to MaxPeriods
\* periods of the pattern, either way.
MaxPeriods == 2

UDash ==
    [pts |-> {<<0, 0>>, <<8, 0>>, <<8, 4>>},
     offsets |-> (0 - 2)..3,
     dashes |-> {<<>>, <<2>>, <<2, 1>>, <<3, 1, 1>>, <<0, 2>>, <<2, 0, 1, 1>>},
     max |-> MaxDash]

NextDash ==
    \/ op # "Dash" /\ MoveToCall(UDash)
    \/ op # "Dash" /\ LineToCall(UDash)
    \/ op # "Dash" /\ CloseCall(UDash)
    \/ op # "Dash" /\ DashCall(UDash)

SpecDash == Init /\ [][NextDash]_vars

\* The length of the pattern d, twice over if d is of odd length.
period(d) == IF Len(d) % 2 = 1 THEN 2 * sumOf(d) ELSE sumOf(d)

\* C16: Dash with the offset moved by k periods of the pattern, for k positive
\* or negative, returns the dashes of the offset itself.
C16_DashOffsetPeriodic ==
    op = "Dash" =>
        \A k \in (0 - MaxPeriods)..MaxPeriods :
            Dash(p, arg[1] + k * period(arg[2]), arg[2]) = res

(***************************************************************************)
(* SpecSymmetry: pairs of segments that meet, cross, touch and overlap     *)
(***************************************************************************)
\* Lines along the x-axis that contain, overlap and continue one another in
\* both directions, lines that cross them, end on them and share end points
\* with them, a Close, curves, and arcs of three circles of radius 2 with
\* the centres (2,0), (4,2) and (6,0): the first two cross at (2,2) and
\* (4,0), the first and the third touch at (4,0).  The last arc crosses the
\* upper half of the first circle in the middle of both.
USymmetry ==
    [segs |-> {<<<<0, 0>>, <<LineToCmd, 4, 0>>>>,
               <<<<2, 0>>, <<LineToCmd, 6, 0>>>>,
               <<<<6, 0>>, <<LineToCmd, 2, 0>>>>,
               <<<<4, 0>>, <<LineToCmd, 8, 0>>>>,
               <<<<0, 0>>, <<LineToCmd, 8, 0>>>>,
               <<<<8, 0>>, <<LineToCmd, 4, 0>>>>,
               <<<<1, 0>>, <<LineToCmd, 3, 0>>>>,
               <<<<0, 2>>, <<LineToCmd, 4, 2>>>>,
               <<<<2, 0 - 2>>, <<LineToCmd, 2, 2>>>>,
               <<<<2, 0>>, <<LineToCmd, 2, 4>>>>,
               <<<<0, 0>>, <<LineToCmd, 4, 4>>>>,
               <<<<4, 0>>, <<LineToCmd, 0, 4>>>>,
               <<<<1, 0 - 1>>, <<LineToCmd, 4, 2>>>>,
               <<<<4, 4>>, <<CloseCmd, 0, 0>>>>,
               <<<<0, 0>>, <<QuadToCmd, 2, 2, 4, 0>>>>,
               <<<<0, 0>>, <<CubeToCmd, 0, 2, 4, 2, 4, 0>>>>,
               <<<<0, 0>>, <<ArcToCmd, 2, 2, 0, 0, 4, 0>>>>,
               <<<<0, 0>>, <<ArcToCmd, 2, 2, 0, 2, 4, 0>>>>,
               <<<<0, 0>>, <<ArcToCmd, 2, 2, 0, 0, 2, 2>>>>,
               <<<<2, 2>>, <<ArcToCmd, 2, 2, 0, 0, 4, 0>>>>,
               <<<<4, 0>>, <<ArcToCmd, 2, 2, 0, 2, 2, 2>>>>,
               <<<<2, 0 - 2>>, <<ArcToCmd, 2, 2, 0, 3, 2, 2>>>>,
               <<<<2, 2>>, <<ArcToCmd, 2, 2, 0, 2, 4, 0>>>>,
               <<<<4, 0>>, <<ArcToCmd, 2, 2, 0, 1, 2, 2>>>>,
               <<<<4, 4>>, <<ArcToCmd, 2, 2, 0, 0, 6, 2>>>>,
               <<<<4, 0>>, <<ArcToCmd, 2, 2, 0, 0, 8, 0>>>>,
               <<<<8, 0>>, <<ArcToCmd, 2, 2, 0, 0, 6, 2>>>>,
               <<<<4, 4>>, <<ArcToCmd, 2, 2, 0, 2, 4, 0>>>>}]

\* One pair is intersected.
NextSymmetry == op = "new" /\ IntersectCall(USymmetry)

SpecSymmetry == Init /\ [][NextSymmetry]_vars

\* The intersections of zs, each with T and Dir of the two segments exchanged.
exchanged(zs) ==
    {[zs[i] EXCEPT !.T = <<zs[i].T[2], zs[i].T[1]>>,
                   !.Dir = <<zs[i].Dir[2], zs[i].Dir[1]>>] : i \in 1..Len(zs)}

setOf(zs) == {zs[i] : i \in 1..Len(zs)}

\* C18: where intersectionSegment(a, b) returns, intersectionSegment(b, a)
\* returns the same intersections (the same points with the same Tangent and
\* Same) with T[0], T[1] and Dir[0], Dir[1] exchanged.
C18_IntersectionSymmetric ==
    op = "intersectionSegment" /\ ~res.panics =>
        LET other == intersectionSegment(arg[2][1], arg[2][2], arg[1][1], arg[1][2])
        IN  ~other.panics /\ setOf(res.zs) = exchanged(other.zs)

\* Two segments overlap and the two intersections that bound the overlap lie
\* at different parameters on the two segments.
C18_Witness ==
    /\ op = "intersectionSegment" /\ ~res.panics
    /\ arg[1] # arg[2]
    /\ Len(res.zs) = 2
    /\ res.zs[1].Same /\ res.zs[1].T[1] # res.zs[1].T[2]

(***************************************************************************)
(* SpecLines: MoveTo and LineTo along and across both axes                 *)
(***************************************************************************)
MaxLines == 3

ULines ==
    [pts |-> {<<0, 0>>, <<2, 0>>, <<4, 0>>, <<2, 2>>, <<2, 4>>, <<4, 4>>},
     max |-> MaxLines]

NextLines ==
    \/ MoveToCall(ULines)
    \/ LineToCall(ULines)

SpecLines == Init /\ [][NextLines]_vars

\* The LineTo to the point pt after the stream d, which ends in a LineTo,
\* continues that LineTo: it is parallel to it and has its direction.
continuesLine(d, pt) == AngleZero(Sub(pt, Pos(d)), Sub(Pos(d), prevStartOf(d)))

\* C19: a LineTo to a new point after a LineTo overwrites the end point of
\* that LineTo if and only if it is parallel to it and continues in its
\* direction; otherwise, a reversal along the same line included, it is
\* appended as a LineTo of its own.
C19_LineToMergesSameDirection ==
    [][/\ op' = "LineTo"
       /\ Len(p) > cmdLen(LineToCmd) /\ p[Len(p)] = LineToCmd
       /\ arg'[1] # Pos(p)
       => IF continuesLine(p, arg'[1])
          THEN p' = [p EXCEPT ![Len(p) - 2] = arg'[1][1], ![Len(p) - 1] = arg'[1][2]]
          ELSE p' = p \o <<LineToCmd, arg'[1][1], arg'[1][2], LineToCmd>>]_vars

(***************************************************************************)
(* SpecCurves: QuadTo and CubeTo with control points on and off the chord  *)
(***************************************************************************)
MaxCurves == 4

CurvePts == {<<0, 0>>, <<2, 0>>, <<4, 0>>, <<2, 2>>}

UCurves ==
    [pts |-> CurvePts,
     cps |-> CurvePts,
     cps2 |-> CurvePts \X CurvePts,
     ends |-> CurvePts,
     max |-> MaxCurves]

\* The path so far is made of straight commands: a curve is the last call.
straight == op \notin {"QuadTo", "CubeTo"}

NextCurves ==
    \/ straight /\ MoveToCall(UCurves)
    \/ straight /\ LineToCall(UCurves)
    \/ straight /\ CloseCall(UCurves)
    \/ straight /\ QuadToCall(UCurves)
    \/ straight /\ CubeToCall(UCurves)

SpecCurves == Init /\ [][NextCurves]_vars

\* c lies on the closed straight segment from a to b.
onSegment(a, c, b) ==
    /\ PerpDot(Sub(b, a), Sub(c, a)) = 0
    /\ 0 <= Dot(Sub(c, a), Sub(b, a))
    /\ Dot(Sub(c, a), Sub(b, a)) <= Dot(Sub(b, a), Sub(b, a))

\* d is e followed by the command cmd, after the MoveTo that starts a subpath
\* where e is empty or closed.
storedAfter(e, d, cmd) ==
    /\ Len(e) + Len(cmd) <= Len(d)
    /\ SubSeq(d, 1, Len(e)) = e
    /\ SubSeq(d, Len(d) - Len(cmd) + 1, Len(d)) = cmd
    /\ Len(d) - Len(cmd) - Len(e) \in {0, cmdLen(MoveToCmd)}

\* The data of the curve command QuadTo or CubeTo appends for the arguments a.
curveCmd(name, a) ==
    IF name = "QuadTo"
    THEN <<QuadToCmd, a[1][1], a[1][2], a[2][1], a[2][2], QuadToCmd>>
    ELSE <<CubeToCmd, a[1][1], a[1][2], a[2][1], a[2][2], a[3][1], a[3][2], CubeToCmd>>

\* C20: QuadTo and CubeTo store nothing when start, control points and end
\* coincide; with distinct start and end they store a LineTo to the end exactly
\* when every control point lies on the closed segment from start to end; in
\* every other case (control points on the line but outside the segment, or
\* start equal to end) the curve command is stored unchanged.
C20_DegenerateCurves ==
    [][op' \in {"QuadTo", "CubeTo"} =>
        LET start == Pos(p)
            a == arg'
            end == a[Len(a)]
            cps == {a[k] : k \in 1..(Len(a) - 1)}
        IN  IF start = end /\ cps = {start}
            THEN p' = p
            ELSE IF start # end /\ \A cp \in cps : onSegment(start, cp, end)
            THEN /\ p' = LineTo(p, end[1], end[2])
                 /\ p'[Len(p')] = LineToCmd /\ Pos(p') = end
            ELSE storedAfter(p, p', curveCmd(op', a))]_vars

\* A cubic whose control points lie between and at the end of the chord has
\* been stored as a LineTo.
C20_Witness ==
    /\ op = "CubeTo" /\ arg = <<<<2, 0>>, <<4, 0>>, <<4, 0>>>>
    /\ p = <<MoveToCmd, 0, 0, MoveToCmd, LineToCmd, 4, 0, LineToCmd>>

(***************************************************************************)
(* SpecCanonical: dashCanonical of every short pattern                     *)
(***************************************************************************)
MaxPattern == 4

\* The patterns of up to n lengths drawn from vals.
RECURSIVE patternsUpTo(_, _)
patternsUpTo(vals, n) ==
    IF n = 0 THEN {<<>>}
    ELSE LET shorter == patternsUpTo(vals, n - 1)
         IN  shorter \cup {Append(d, v) : d \in shorter, v \in vals}

UCanonical ==
    [offsets |-> {0, 1},
     lengths |-> {0 - 1, 0, 1, 2},
     max |-> MaxPattern]

\* offset, d = dashCanonical(offset, d)
DashCanonicalCall(u) ==
    \E offset \in u.offsets, d \in patternsUpTo(u.lengths, u.max) :
        /\ p' = p
        /\ op' = "dashCanonical"
        /\ arg' = <<offset, d>>
        /\ res' = dashCanonical(offset, d)

NextCanonical == op = "new" /\ DashCanonicalCall(UCanonical)

SpecCanonical == Init /\ [][NextCanonical]_vars

\* d is the pattern unit written one or more times.
repeats(d, unit) ==
    /\ Len(unit) > 0 /\ Len(d) % Len(unit) = 0
    /\ \A i \in 1..Len(d) : d[i] = unit[((i - 1) % Len(unit)) + 1]

\* d is made of two equal halves.
twoHalves(d) ==
    /\ Len(d) > 0 /\ Len(d) % 2 = 0
    /\ SubSeq(d, 1, Len(d) \div 2) = SubSeq(d, Len(d) \div 2 + 1, Len(d))

\* d with its interior zero at index i removed and its neighbours merged.
mergedAt(d, i) ==
    SubSeq(d, 1, i - 2) \o <<d[i - 1] + d[i + 1]>> \o SubSeq(d, i + 2, Len(d))

\* C21: dashCanonical returns () with offset 0, (0) with offset 0, or a pattern
\* of positive lengths that is not two equal halves.  An interior zero is
\* removed by merging its neighbours; a leading (trailing) zero of a pattern
\* of three or more lengths is removed by rotating the pattern and moving the
\* offset; a pattern in which a negative length remains gives (0).
C21_DashCanonicalShapes ==
    op = "dashCanonical" =>
        LET offset == arg[1]
            d == arg[2]
            n == Len(d)
            positive(e) == \A i \in 1..Len(e) : e[i] > 0
        IN  /\ \/ res = <<0, <<>>>>
               \/ res = <<0, <<0>>>>
               \/ Len(res[2]) > 0 /\ positive(res[2]) /\ ~twoHalves(res[2])
            /\ \A i \in 2..(n - 1) :
                  d[i] = 0 /\ (\A k \in 1..n : d[k] >= 0)
                  => res = dashCanonical(offset, mergedAt(d, i))
            /\ n >= 3 /\ d[1] = 0 /\ positive(Tail(d))
                  => /\ res[1] = offset - d[2]
                     /\ repeats(SubSeq(d, 3, n - 1) \o <<d[n] + d[2]>>, res[2])
            /\ n >= 3 /\ d[n] = 0 /\ positive(SubSeq(d, 1, n - 1))
                  => /\ res[1] = offset + d[n - 1]
                     /\ repeats(<<d[1] + d[n - 1]>> \o SubSeq(d, 2, n - 2), res[2])
            /\ (\A k \in 1..n : d[k] # 0) /\ (\E k \in 1..n : d[k] < 0)
                  => res = <<0, <<0>>>>

\* A pattern with a trailing zero has been rotated into one positive length
\* and a moved offset.
C21_Witness ==
    /\ op = "dashCanonical"
    /\ arg = <<0, <<2, 1, 0>>>>
    /\ res = <<1, <<3>>>>

(***************************************************************************)
(* SpecCount: how many intersections one call of intersectionSegment adds  *)
(***************************************************************************)
\* The segments of USymmetry, two cubics that wind about the x axis (the first
\* crosses it at t = 1/4, 1/2 and 3/4, the second at t = 0, 1/2 and 1) and two
\* lines along the x axis.
UCount ==
    [segs |-> USymmetry.segs \cup
              {<<<<0, 0 - 9>>, <<CubeToCmd, 2, 13, 4, 0 - 13, 6, 9>>>>,
               <<<<0, 0>>, <<CubeToCmd, 2, 4, 4, 0 - 4, 6, 0>>>>,
               <<<<0 - 2, 0>>, <<LineToCmd, 8, 0>>>>,
               <<<<6, 0>>, <<LineToCmd, 0, 0>>>>}]

NextCount == op = "new" /\ IntersectCall(UCount)

SpecCount == Init /\ [][NextCount]_vars

\* The intersections of zs are worked out, none is kept as a solver's call.
solved(zs) == \A i \in 1..Len(zs) : "Point" \in DOMAIN zs[i]

\* C22: one call of intersectionSegment appends at most two intersections,
\* for every pair of segments it supports.
C22_AtMostTwoIntersections ==
    op = "intersectionSegment" /\ ~res.panics /\ solved(res.zs) => Len(res.zs) <= 2

(***************************************************************************)
(* SpecWindingsList: windings of short lists of intersections with a ray   *)
(***************************************************************************)
MaxZs == 2

\* Intersections of a ray towards +x with a segment that goes up or down: at
\* the start of the ray or half way along it, at the start, the middle or the
\* end of the segment, Same or not.
UWindingsList ==
    [zs |-> {Intersection(<<<<0, 1>>, <<0, 1>>>>, ta, tb, <<1, 0>>, dirb,
                          same \/ tb # <<1, 2>>, same) :
                ta \in {<<0, 1>>, <<1, 2>>},
                tb \in {<<0, 1>>, <<1, 2>>, <<1, 1>>},
                dirb \in {<<0, 1>>, <<0, 0 - 1>>},
                same \in BOOLEAN},
     max |-> MaxZs]

\* n, boundary := windings(zs)
WindingsListCall(u) ==
    \E zs \in patternsUpTo(u.zs, u.max) :
        /\ p' = p
        /\ op' = "windings"
        /\ arg' = zs
        /\ res' = windings(zs)

NextWindingsList == op = "new" /\ WindingsListCall(UWindingsList)

SpecWindingsList == Init /\ [][NextWindingsList]_vars

\* C23: windings reads no element past the end of zs.  It reports the boundary
\* whenever the first element lies at the start of the ray (T[0] = 0), and for
\* a single element strictly inside a segment that is not Same it counts +1 or
\* -1 by the crossing direction.
C23_WindingsInRange ==
    op = "windings" =>
        /\ ~res.panics
        /\ Len(arg) > 0 /\ arg[1].T[1] = <<0, 1>> => res.boundary
        /\ Len(arg) = 1 /\ arg[1].T[1] # <<0, 1>> /\ arg[1].T[2] = <<1, 2>> /\ ~arg[1].Same
              => res.n = (IF Into(arg[1]) THEN 0 - 1 ELSE 1)

(***************************************************************************)
(* Joiners: Bevel, Round, Miter and Arcs                                   *)
(***************************************************************************)
\* math.NaN() for a radius of curvature or a miter limit: the empty tuple.  A
\* radius that is a number r is <<r>>, a limit is a fraction <<n, d>>.
NaN == <<>>
IsNaN(x) == x = NaN

Neg(a) == <<0 - a[1], 0 - a[2]>>
Rot90CW(a) == <<a[2], 0 - a[1]>>
Rot90CCW(a) == <<0 - a[2], a[1]>>

\* A joiner value: its type, whether GapJoiner is BevelJoin (or nil), Limit.
Joiner(kind, gap, limit) == [kind |-> kind, GapJoiner |-> gap, Limit |-> limit]

BevelJoin == Joiner("Bevel", FALSE, NaN)
RoundJoin == Joiner("Round", FALSE, NaN)
MiterJoin == Joiner("Miter", TRUE, <<4, 1>>)
MiterClipJoin == Joiner("Miter", FALSE, <<4, 1>>)
ArcsJoin == Joiner("Arcs", TRUE, <<4, 1>>)
ArcsClipJoin == Joiner("Arcs", FALSE, <<4, 1>>)

\* The right-hand and the left-hand path a Join call has written to.
Sides(rhs, lhs) == [rhs |-> rhs, lhs |-> lhs]

\* A join that adds nothing to either path.
joinNothing(rhs, lhs, halfWidth, pivot, n0, n1, r0, r1) == Sides(rhs, lhs)

BevelJoinerJoin(rhs, lhs, halfWidth, pivot, n0, n1, r0, r1) ==
    LET rEnd == Add(pivot, n1)
        lEnd == Sub(pivot, n1)
    IN  Sides(LineTo(rhs, rEnd[1], rEnd[2]), LineTo(lhs, lEnd[1], lEnd[2]))

RoundJoinerJoin(rhs, lhs, halfWidth, pivot, n0, n1, r0, r1) ==
    LET rEnd == Add(pivot, n1)
        lEnd == Sub(pivot, n1)
        cw == 0 <= Dot(Rot90CW(n0), n1)
    IN  IF cw
        THEN Sides(LineTo(rhs, rEnd[1], rEnd[2]),
                   ArcTo(lhs, halfWidth, halfWidth, 0, FALSE, FALSE, lEnd[1], lEnd[2]))
        ELSE Sides(ArcTo(rhs, halfWidth, halfWidth, 0, FALSE, TRUE, rEnd[1], rEnd[2]),
                   LineTo(lhs, lEnd[1], lEnd[2]))

\* math.Max(j.Limit, 1.001): NaN for a NaN limit.
joinLimit(j) ==
    IF IsNaN(j.Limit) THEN NaN
    ELSE IF FracLess(j.Limit, <<1001, 1000>>) THEN <<1001, 1000>> ELSE j.Limit

\* cos(theta)^2 for theta half the angle between two normals of length
\* halfWidth: (1 + cos(2 theta)) / 2 with cos(2 theta) = n0.n1 / halfWidth^2.
cosHalf2(halfWidth, n0, n1) ==
    Frac(halfWidth * halfWidth + Dot(n0, n1), 2 * halfWidth * halfWidth)

\* limit * halfWidth < |d| for d = hw / cos(theta): limit^2 cos(theta)^2 < 1.
miterClip(limit, c2) ==
    IF IsNaN(limit) THEN FALSE
    ELSE limit[1] * limit[1] * c2[1] < limit[2] * limit[2] * c2[2]

\* pivot.Add(n0.Add(n1).Norm(d)): n0 + n1 has the length 2 halfWidth
\* cos(theta), so it is scaled by d / (2 halfWidth cos(theta)), which is
\* 1 / (2 cos(theta)^2) with the sign of hw.  Coordinates as fractions.
miterMid(pivot, n0, n1, cw, c2) ==
    LET s == Add(n0, n1)
        sign == IF cw THEN 0 - 1 ELSE 1
    IN  <<Frac(pivot[1] * 2 * c2[1] + sign * s[1] * c2[2], 2 * c2[1]),
          Frac(pivot[2] * 2 * c2[1] + sign * s[2] * c2[2], 2 * c2[1])>>

\* t = |limit * halfWidth / d| = limit cos(theta), when cos(theta) is rational.
miterT(limit, c2) == Frac(limit[1] * Sqrt(c2[1]), limit[2] * Sqrt(c2[2]))

\* The two points of a clipped miter on the path that ends at from, with the
\* end of the join at to: from.Interpolate(mid, t) and to.Interpolate(mid, t).
miterClipPoints(from, to, mid, t) == <<Interpolate(from, mid, t), Interpolate(to, mid, t)>>

lineToPoint(d, q) == LineTo(d, q[1], q[2])

MiterJoinerJoin(j, rhs, lhs, halfWidth, pivot, n0, n1, r0, r1) ==
    IF PointEquals(n0, Neg(n1))
    THEN BevelJoinerJoin(rhs, lhs, halfWidth, pivot, n0, n1, r0, r1)
    ELSE LET cw == 0 <= Dot(Rot90CW(n0), n1)
             c2 == cosHalf2(halfWidth, n0, n1)
             limit == joinLimit(j)
             clip == miterClip(limit, c2)
             rEnd == Add(pivot, n1)
             lEnd == Sub(pivot, n1)
             mid == whole(miterMid(pivot, n0, n1, cw, c2))
             ends(s) == Sides(lineToPoint(s.rhs, rEnd), lineToPoint(s.lhs, lEnd))
             clipped(d, to) ==
                 LET m == miterClipPoints(Pos(d), to, mid, miterT(limit, c2))
                 IN  lineToPoint(lineToPoint(d, whole(m[1])), whole(m[2]))
         IN  IF clip /\ j.GapJoiner
             THEN BevelJoinerJoin(rhs, lhs, halfWidth, pivot, n0, n1, r0, r1)
             ELSE IF clip
             THEN IF cw THEN ends(Sides(rhs, clipped(lhs, lEnd)))
                  ELSE ends(Sides(clipped(rhs, rEnd), lhs))
             ELSE IF cw THEN ends(Sides(rhs, lineToPoint(lhs, mid)))
                  ELSE ends(Sides(lineToPoint(rhs, mid), lhs))

\* LineTo(q) on d decides as the code does when q, or the point d ends at, is
\* a point the code has computed in doubles and that lies a rounding error
\* off the grid: where the new line is parallel to the last one and the
\* component whose sign bits LineTo compares is zero on the grid, the sign
\* bit of the code is that of the rounding error.
lineToRobust(d, q) ==
    LET da == Sub(Pos(d), prevStartOf(d))
        db == Sub(q, Pos(d))
    IN  ~(/\ cmdLen(LineToCmd) <= Len(d) /\ d[Len(d)] = LineToCmd
          /\ ~PointEquals(Pos(d), q)
          /\ linesParallel(da, db)
          /\ (IF da[2] < da[1] THEN db[1] ELSE db[2]) = 0)

\* lineToRobust for the points qs drawn one after the other on d.
RECURSIVE linesToRobust(_, _)
linesToRobust(d, qs) ==
    IF Len(qs) = 0 THEN TRUE
    ELSE lineToRobust(d, qs[1]) /\ linesToRobust(lineToPoint(d, qs[1]), Tail(qs))

\* The calls of MiterJoiner.Join whose points are points of the grid and
\* whose lines LineTo takes as the code does.
miterExact(j, rhs, lhs, halfWidth, pivot, n0, n1) ==
    LET cw == 0 <= Dot(Rot90CW(n0), n1)
        c2 == cosHalf2(halfWidth, n0, n1)
        limit == joinLimit(j)
        clip == miterClip(limit, c2)
        mid == miterMid(pivot, n0, n1, cw, c2)
        d == IF cw THEN lhs ELSE rhs
        end == IF cw THEN Sub(pivot, n1) ELSE Add(pivot, n1)
        exact(m) ==
            /\ wholePoint(m[1]) /\ wholePoint(m[2])
            /\ linesToRobust(d, <<whole(m[1]), whole(m[2]), end>>)
    IN  IF PointEquals(n0, Neg(n1)) THEN TRUE
        ELSE IF clip /\ j.GapJoiner THEN TRUE
        ELSE IF ~wholePoint(mid) THEN FALSE
        ELSE IF ~clip THEN linesToRobust(d, <<whole(mid), end>>)
        ELSE IF ~(IsSquare(c2[1]) /\ IsSquare(c2[2])) THEN FALSE
        ELSE exact(miterClipPoints(Pos(d), end, whole(mid), miterT(limit, c2)))

\* What an intersection helper of the joiners returns: ok, the points, and
\* whether the points are points of the grid (the model uses no others).
Meet(ok, exact, i0, i1) == [ok |-> ok, exact |-> exact, i0 |-> i0, i1 |-> i1]
NoMeet == Meet(FALSE, TRUE, <<0, 0>>, <<0, 0>>)
Inexact == Meet(TRUE, FALSE, <<0, 0>>, <<0, 0>>)
meetAt(f0, f1) ==
    IF wholePoint(f0) /\ wholePoint(f1) THEN Meet(TRUE, TRUE, whole(f0), whole(f1))
    ELSE Inexact

\* intersectionRayLine: the line through a0 and a1 with the segment b0 b1.
intersectionRayLine(a0, a1, b0, b1) ==
    LET da == Sub(a1, a0)
        db == Sub(b1, b0)
        div == PerpDot(da, db)
        tb == Frac(PerpDot(da, Sub(a0, b0)), div)
        at == Interpolate(b0, b1, tb)
    IN  IF Equal(div, 0) THEN NoMeet
        ELSE IF 0 <= tb[1] /\ tb[1] <= tb[2] THEN meetAt(at, at)
        ELSE NoMeet

\* intersectionRayCircle: with v = l1 - l0 in place of the unit vector d, D is
\* cr / |v| and the discriminant is (r^2 |v|^2 - cr^2) / |v|^2, so that every
\* term of the two points has the denominator |v|^2.
\* A ray that touches the circle in a direction off the axes has a
\* discriminant a rounding error away from zero: the call is not exact.
intersectionRayCircle(l0, l1, c, r) ==
    LET v == Sub(l1, l0)
        L2 == Dot(v, v)
        cr == PerpDot(Sub(l0, c), v)
        discriminant == r * r * L2 - cr * cr
        points(s) ==
            LET ax == cr * v[2]
                bx == IF v[2] < 0 THEN 0 - v[1] * s ELSE v[1] * s
                ay == 0 - cr * v[1]
                by == Abs(v[2]) * s
            IN  meetAt(<<Frac(c[1] * L2 + ax + bx, L2), Frac(c[2] * L2 + ay + by, L2)>>,
                       <<Frac(c[1] * L2 + ax - bx, L2), Frac(c[2] * L2 + ay - by, L2)>>)
    IN  IF L2 = 0 THEN Inexact
        ELSE IF discriminant < 0 THEN NoMeet
        ELSE IF discriminant = 0 /\ v[1] # 0 /\ v[2] # 0 THEN Inexact
        ELSE IF ~IsSquare(discriminant) THEN Inexact
        ELSE points(floorRoot(discriminant))

\* intersectionCircleCircle: with R2 = |c0 - c1|^2 and k = r0^2 - r1^2 the
\* points are ((c0 + c1) R2 + (c1 - c0) k +- perp sqrt(D)) / (2 R2), where
\* D = 2 (r0^2 + r1^2) R2 - k^2 - R2^2 = (R2 - (r0 - r1)^2) ((r0 + r1)^2 - R2).
\* For circles that touch (D = 0) the radicand of the code is a rounding
\* error away from zero, below it for some, and the points are then NaN: the
\* call is not exact.
intersectionCircleCircle(c0, r0, c1, r1) ==
    LET d == Sub(c0, c1)
        R2 == Dot(d, d)
        k == r0 * r0 - r1 * r1
        D == (R2 - (r0 - r1) * (r0 - r1)) * ((r0 + r1) * (r0 + r1) - R2)
        points(s) ==
            LET bx == (c0[1] + c1[1]) * R2 + (c1[1] - c0[1]) * k
                by == (c0[2] + c1[2]) * R2 + (c1[2] - c0[2]) * k
                px == (c1[2] - c0[2]) * s
                py == (c0[1] - c1[1]) * s
            IN  meetAt(<<Frac(bx + px, 2 * R2), Frac(by + py, 2 * R2)>>,
                       <<Frac(bx - px, 2 * R2), Frac(by - py, 2 * R2)>>)
    IN  IF R2 < (r0 - r1) * (r0 - r1) THEN NoMeet
        ELSE IF (r0 + r1) * (r0 + r1) < R2 THEN NoMeet
        ELSE IF PointEquals(c0, c1) THEN NoMeet
        ELSE IF D = 0 \/ ~IsSquare(D) THEN Inexact
        ELSE points(floorRoot(D))

\* angleNorm(v.Angle() - u.Angle()) is zero: v points the way u does.  The
\* angle of the zero vector is 0, the direction of (1, 0).
dirOf(v) == IF v = <<0, 0>> THEN <<1, 0>> ELSE v
turnZero(u, v) == PerpDot(dirOf(u), dirOf(v)) = 0 /\ Dot(dirOf(u), dirOf(v)) > 0

\* angleNorm(a.Angle() - u.Angle()) < angleNorm(b.Angle() - u.Angle()): the
\* turn from u to a is less than the turn from u to b, both within [0, 2 Pi).
turnLess(u, a, b) ==
    LET half(v) == IF turnZero(u, v) \/ PerpDot(dirOf(u), dirOf(v)) > 0 THEN 0 ELSE 1
    IN  IF half(a) # half(b) THEN half(a) < half(b)
        ELSE PerpDot(dirOf(a), dirOf(b)) > 0

closestArcIntersection(c, cw, pivot, i0, i1) ==
    LET u == Sub(pivot, c)
        v0 == Sub(i0, c)
        v1 == Sub(i1, c)
        less == IF cw
                THEN IF turnZero(u, v1) THEN ~turnZero(u, v0)
                     ELSE ~turnZero(u, v0) /\ turnLess(u, v0, v1)
                ELSE turnLess(u, v1, v0)
    IN  IF less THEN i1 ELSE i0

\* pivot.Add(n.Norm(-r)) for a normal of length halfWidth, as fractions.
arcsCenter(halfWidth, pivot, n, r) ==
    <<Frac(pivot[1] * halfWidth - n[1] * r, halfWidth),
      Frac(pivot[2] * halfWidth - n[2] * r, halfWidth)>>

\* What ArcsJoiner.Join works out before it draws: whether its numbers are
\* exact in the model, whether it falls back to the bevel (no intersection)
\* or to the gap joiner (beyond the limit), whether it clips, mid and mid2.
ArcsPlan(exact, bevel, gap, clip, mid, mid2) ==
    [exact |-> exact, bevel |-> bevel, gap |-> gap, clip |-> clip, mid |-> mid, mid2 |-> mid2]
PlanInexact == ArcsPlan(FALSE, FALSE, FALSE, FALSE, <<0, 0>>, <<0, 0>>)
PlanBevel == ArcsPlan(TRUE, TRUE, FALSE, FALSE, <<0, 0>>, <<0, 0>>)

\* The arcs-clip part: clipMid and clipNormal, then mid2 on the next
\* segment's offset and mid on the previous segment's.  The circle in between
\* both stroke edges is followed over limit halfWidth / rMid radians, an angle
\* that is no multiple of a quarter turn: the model draws no such join.
arcsClip(limit, halfWidth, pivot, n0, n1, r0, r1, cw, c0, c1, R0, R1, mid) ==
    LET start == IF cw THEN Sub(pivot, n0) ELSE Add(pivot, n0)
        end == IF cw THEN Sub(pivot, n1) ELSE Add(pivot, n1)
        v == Sub(mid, pivot)
        len == floorRoot(Dot(v, v))
        clipMid == <<Frac(v[1] * limit[1] * halfWidth, limit[2] * len),
                     Frac(v[2] * limit[1] * halfWidth, limit[2] * len)>>
        cut(cm) ==
            LET cn == Rot90CCW(cm)
                second == IF IsNaN(r1) THEN intersectionRayLine(cm, Add(cm, cn), mid, end)
                          ELSE intersectionRayCircle(cm, Add(cm, cn), c1, R1[1])
                first == IF IsNaN(r0) THEN intersectionRayLine(cm, Add(cm, cn), start, mid)
                         ELSE intersectionRayCircle(cm, Add(cm, cn), c0, R0[1])
                drawn(s, f) ==
                    IF ~s.exact THEN PlanInexact
                    ELSE IF ~s.ok THEN PlanBevel
                    ELSE IF ~f.exact THEN PlanInexact
                    ELSE IF ~f.ok THEN PlanBevel
                    ELSE ArcsPlan(TRUE, FALSE, FALSE, TRUE,
                                  IF IsNaN(r0) THEN f.i0
                                  ELSE closestArcIntersection(c0, r0[1] < 0, pivot, f.i0, f.i1),
                                  IF IsNaN(r1) THEN s.i0
                                  ELSE closestArcIntersection(c1, 0 <= r1[1], pivot, s.i0, s.i1))
            IN  drawn(second, first)
    IN  IF ~IsNaN(r0) /\ ~IsNaN(r1) /\ ((0 < r0[1]) = (0 < r1[1]))
        THEN IF IsSquare(Dot(v, v)) /\ wholePoint(clipMid) THEN cut(whole(clipMid))
             ELSE PlanInexact
        ELSE PlanInexact

\* ArcsJoiner.Join from "limit :=" to the end of the arcs-clip part, for radii
\* that are not both NaN.
arcsPlan(j, halfWidth, pivot, n0, n1, r0, r1) ==
    LET limit == joinLimit(j)
        cw == 0 <= Dot(Rot90CW(n0), n1)
        hw == IF cw THEN 0 - halfWidth ELSE halfWidth
        fc0 == IF IsNaN(r0) THEN <<NaN, NaN>> ELSE arcsCenter(halfWidth, pivot, n0, r0[1])
        fc1 == IF IsNaN(r1) THEN <<NaN, NaN>> ELSE arcsCenter(halfWidth, pivot, n1, r1[1])
        R0 == IF IsNaN(r0) THEN NaN ELSE <<Abs(r0[1] + hw)>>
        R1 == IF IsNaN(r1) THEN NaN ELSE <<Abs(r1[1] + hw)>>
        line(n) == IF cw THEN Sub(pivot, n) ELSE Add(pivot, n)
        planned(c0, c1) ==
            LET met == IF IsNaN(r0)
                       THEN intersectionRayCircle(line(n0), Add(line(n0), Rot90CCW(n0)), c1, R1[1])
                       ELSE IF IsNaN(r1)
                       THEN intersectionRayCircle(line(n1), Add(line(n1), Rot90CCW(n1)), c0, R0[1])
                       ELSE intersectionCircleCircle(c0, R0[1], c1, R1[1])
                closest(z) ==
                    IF ~IsNaN(r0) THEN closestArcIntersection(c0, r0[1] < 0, pivot, z.i0, z.i1)
                    ELSE closestArcIntersection(c1, 0 <= r1[1], pivot, z.i0, z.i1)
                limited(mid) ==
                    LET v == Sub(mid, pivot)
                        clip == IF IsNaN(limit) THEN FALSE
                                ELSE limit[1] * limit[1] * halfWidth * halfWidth
                                       < limit[2] * limit[2] * Dot(v, v)
                    IN  IF clip /\ j.GapJoiner
                        THEN ArcsPlan(TRUE, FALSE, TRUE, TRUE, mid, mid)
                        ELSE IF clip
                        THEN arcsClip(limit, halfWidth, pivot, n0, n1, r0, r1, cw, c0, c1, R0, R1, mid)
                        ELSE ArcsPlan(TRUE, FALSE, FALSE, FALSE, mid, mid)
                after(z) ==
                    IF ~z.exact THEN PlanInexact
                    ELSE IF ~z.ok THEN PlanBevel
                    ELSE limited(closest(z))
            IN  after(met)
    IN  IF (~IsNaN(r0) /\ ~wholePoint(fc0)) \/ (~IsNaN(r1) /\ ~wholePoint(fc1)) THEN PlanInexact
        ELSE planned(IF IsNaN(r0) THEN fc0 ELSE whole(fc0), IF IsNaN(r1) THEN fc1 ELSE whole(fc1))

\* The drawing part of ArcsJoiner.Join, from "rEnd :=".
arcsDraw(rhs, lhs, halfWidth, pivot, n0, n1, r0, r1, plan) ==
    LET cw == 0 <= Dot(Rot90CW(n0), n1)
        hw == IF cw THEN 0 - halfWidth ELSE halfWidth
        rEnd == Add(pivot, n1)
        lEnd == Sub(pivot, n1)
        to(d, r, q) ==
            IF IsNaN(r) THEN lineToPoint(d, q)
            ELSE ArcTo(d, Abs(r[1] + hw), Abs(r[1] + hw), 0, FALSE, 0 < r[1], q[1], q[2])
        bend(d, end) ==
            LET d1 == to(d, r0, plan.mid)
                d2 == IF plan.clip THEN lineToPoint(d1, plan.mid2) ELSE d1
            IN  to(d2, r1, end)
    IN  IF cw THEN Sides(lineToPoint(rhs, rEnd), bend(lhs, lEnd))
        ELSE Sides(bend(rhs, rEnd), lineToPoint(lhs, lEnd))

ArcsJoinerJoin(j, rhs, lhs, halfWidth, pivot, n0, n1, r0, r1) ==
    LET drawn(plan) ==
            IF plan.bevel \/ plan.gap
            THEN BevelJoinerJoin(rhs, lhs, halfWidth, pivot, n0, n1, r0, r1)
            ELSE arcsDraw(rhs, lhs, halfWidth, pivot, n0, n1, r0, r1, plan)
    IN  IF PointEquals(n0, Neg(n1))
        THEN BevelJoinerJoin(rhs, lhs, halfWidth, pivot, n0, n1, r0, r1)
        ELSE IF IsNaN(r0) /\ IsNaN(r1)
        THEN MiterJoinerJoin(j, rhs, lhs, halfWidth, pivot, n0, n1, r0, r1)
        ELSE drawn(arcsPlan(j, halfWidth, pivot, n0, n1, r0, r1))

\* Every ArcTo of the drawing part keeps its radii: the chord from the
\* current position to the end point is no longer than the diameter.  Every
\* LineTo of the drawing part is one of lineToRobust.
arcsDrawExact(rhs, lhs, halfWidth, pivot, n0, n1, r0, r1, plan) ==
    LET cw == 0 <= Dot(Rot90CW(n0), n1)
        hw == IF cw THEN 0 - halfWidth ELSE halfWidth
        d == IF cw THEN lhs ELSE rhs
        end == IF cw THEN Sub(pivot, n1) ELSE Add(pivot, n1)
        fits(e, r, q) ==
            IF IsNaN(r) THEN lineToRobust(e, q)
            ELSE IF Equal(r[1] + hw, 0) THEN TRUE
            ELSE Dot(Sub(Pos(e), q), Sub(Pos(e), q)) <= 4 * (r[1] + hw) * (r[1] + hw)
        to(e, r, q) ==
            IF IsNaN(r) THEN lineToPoint(e, q)
            ELSE ArcTo(e, Abs(r[1] + hw), Abs(r[1] + hw), 0, FALSE, 0 < r[1], q[1], q[2])
        rest(d1) ==
            /\ plan.clip => lineToRobust(d1, plan.mid2)
            /\ fits(IF plan.clip THEN lineToPoint(d1, plan.mid2) ELSE d1, r1, end)
    IN  IF fits(d, r0, plan.mid) THEN rest(to(d, r0, plan.mid)) ELSE FALSE

\* The calls of Join the model makes: those whose points are points of the grid.
joinExact(j, rhs, lhs, halfWidth, pivot, n0, n1, r0, r1) ==
    LET cw == 0 <= Dot(Rot90CW(n0), n1)
        end == IF cw THEN Sub(pivot, n1) ELSE Add(pivot, n1)
        planExact(plan) ==
            IF ~plan.exact THEN FALSE
            ELSE IF plan.bevel \/ plan.gap THEN TRUE
            ELSE arcsDrawExact(rhs, lhs, halfWidth, pivot, n0, n1, r0, r1, plan)
    IN  IF j.kind = "Bevel" THEN TRUE
        ELSE IF j.kind = "Round"
        THEN arcExact(IF cw THEN lhs ELSE rhs, halfWidth, halfWidth, 0, end[1], end[2])
        ELSE IF j.kind = "Miter" THEN miterExact(j, rhs, lhs, halfWidth, pivot, n0, n1)
        ELSE IF PointEquals(n0, Neg(n1)) THEN TRUE
        ELSE IF IsNaN(r0) /\ IsNaN(r1) THEN miterExact(j, rhs, lhs, halfWidth, pivot, n0, n1)
        ELSE planExact(arcsPlan(j, halfWidth, pivot, n0, n1, r0, r1))

\* Joiner.Join, dispatched on the joiner's type.
JoinerJoin(j, rhs, lhs, halfWidth, pivot, n0, n1, r0, r1) ==
    IF j.kind = "Bevel" THEN BevelJoinerJoin(rhs, lhs, halfWidth, pivot, n0, n1, r0, r1)
    ELSE IF j.kind = "Round" THEN RoundJoinerJoin(rhs, lhs, halfWidth, pivot, n0, n1, r0, r1)
    ELSE IF j.kind = "Miter" THEN MiterJoinerJoin(j, rhs, lhs, halfWidth, pivot, n0, n1, r0, r1)
    ELSE ArcsJoinerJoin(j, rhs, lhs, halfWidth, pivot, n0, n1, r0, r1)

(***************************************************************************)
(* SpecJoiner: one call of Join on the two sides of a stroke               *)
(***************************************************************************)
\* The joiners, the pivots and the strokes of the calls: a stroke has a half
\* width, normals of that length (the first normal is one of firsts) and radii
\* of curvature.
UJoiner ==
    [joiners |-> {BevelJoin, RoundJoin, MiterJoin, MiterClipJoin, ArcsJoin, ArcsClipJoin,
                  Joiner("Miter", TRUE, NaN), Joiner("Miter", FALSE, NaN),
                  Joiner("Miter", FALSE, <<5, 4>>), Joiner("Arcs", FALSE, NaN),
                  Joiner("Arcs", FALSE, <<2, 1>>)},
     pivots |-> {<<0, 0>>, <<10, 20>>},
     strokes |->
         {[halfWidth |-> 25,
           firsts |-> {<<25, 0>>, <<0, 25>>},
           normals |-> {<<25, 0>>, <<0, 25>>, <<0 - 25, 0>>, <<0, 0 - 25>>,
                        <<15, 20>>, <<0 - 15, 20>>, <<15, 0 - 20>>, <<0 - 20, 15>>,
                        <<0 - 20, 0 - 15>>, <<7, 24>>, <<0 - 7, 24>>, <<7, 0 - 24>>,
                        <<0 - 7, 0 - 24>>, <<24, 0 - 7>>, <<0 - 24, 7>>},
           radii |-> {NaN, <<25>>, <<0 - 25>>, <<50>>, <<0 - 50>>, <<75>>, <<0 - 75>>,
                      <<100>>, <<0 - 100>>, <<125>>, <<0 - 125>>}],
          [halfWidth |-> 75,
           firsts |-> {<<75, 0>>},
           normals |-> {<<75, 0>>, <<0, 75>>, <<0 - 75, 0>>, <<0 - 21, 72>>, <<0 - 21, 0 - 72>>},
           radii |-> {NaN, <<75>>}]},
     started |-> BOOLEAN]

\* The two sides of a stroke that has reached the pivot along a straight
\* segment with the normal n0, or two empty paths.
sidesBefore(started, pivot, n0) ==
    LET r == Add(pivot, n0)
        l == Sub(pivot, n0)
        back == Rot90CW(n0)
    IN  IF started
        THEN Sides(lineToPoint(MoveTo(<<>>, r[1] + back[1], r[2] + back[2]), r),
                   lineToPoint(MoveTo(<<>>, l[1] + back[1], l[2] + back[2]), l))
        ELSE Sides(<<>>, <<>>)

JoinerCall(u) ==
    \E j \in u.joiners, pivot \in u.pivots, stroke \in u.strokes, started \in u.started :
    \E n0 \in stroke.firsts, n1 \in stroke.normals, r0 \in stroke.radii, r1 \in stroke.radii :
        LET s == sidesBefore(started, pivot, n0)
            halfWidth == stroke.halfWidth
        IN  /\ joinExact(j, s.rhs, s.lhs, halfWidth, pivot, n0, n1, r0, r1)
            /\ op' = "Joiner.Join"
            /\ arg' = [j |-> j, halfWidth |-> halfWidth, pivot |-> pivot, n0 |-> n0, n1 |-> n1,
                       r0 |-> r0, r1 |-> r1, rhs |-> s.rhs, lhs |-> s.lhs]
            /\ res' = JoinerJoin(j, s.rhs, s.lhs, halfWidth, pivot, n0, n1, r0, r1)
            /\ p' = p

NextJoiner == op = "new" /\ JoinerCall(UJoiner)

SpecJoiner == Init /\ [][NextJoiner]_vars

\* C24: after Join, for every joiner, every pair of normals of length
\* halfWidth, every pair of radii of curvature (NaN included) and a NaN miter
\* limit, the right-hand path ends at pivot + n1 and the left-hand path at
\* pivot - n1, whichever branch was taken.
C24_JoinEndsAtNormals ==
    op = "Joiner.Join" =>
        /\ Pos(res.rhs) = Add(arg.pivot, arg.n1)
        /\ Pos(res.lhs) = Sub(arg.pivot, arg.n1)

\* A call of ArcsClipJoin that draws two arcs on the right-hand path.
C24_Witness ==
    /\ op = "Joiner.Join"
    /\ arg.j = ArcsClipJoin
    /\ ~IsNaN(arg.r0) /\ ~IsNaN(arg.r1)
    /\ Len(res.rhs) = Len(arg.rhs) + 2 * cmdLen(ArcToCmd)
    /\ res.rhs[Len(res.rhs)] = ArcToCmd
    /\ ~PointEquals(arg.n0, arg.n1)

\* The string holds separators only: spaces, commas, newlines, returns, tabs.
separatorsOnly(s) ==
    Len(s) > 0 /\ \A i \in 1..Len(s) : s[i] \in {" ", ",", "\n", "\r", "\t"}

\* C25: for every input string ParseSVGPath returns either a path or an error
\* and never aborts with an out-of-range access; an input of whitespace and
\* separators only gives what the empty string gives, or an error.
C25_ParseNeverAborts ==
    op = "ParseSVGPath" =>
        /\ ~res.panics
        /\ res.nil = (res.err # "")
        /\ separatorsOnly(arg) => res = ParseSVGPath(<<>>) \/ (res.nil /\ res.err # "")

(***************************************************************************)
(* SpecFlatten: Flatten on a path that ends in one quadratic curve, one    *)
(* iteration of flattenQuadraticBezier's loop at a time                    *)
(***************************************************************************)
MaxSteps == 4

\* The start points, control points, end points and tolerances (fractions) of
\* the calls.
UFlatten ==
    [starts |-> {<<0, 0>>, <<4, 8>>},
     points |-> {<<x, y>> : x \in {0 - 8, 0, 4, 8}, y \in {0 - 16, 0, 16}},
     tolerances |-> {<<0, 1>>, <<1, 1>>, <<1, 4>>}]

\* quadraticBezierSplit at the fraction t: r0, r1 and r2 of the right part,
\* their coordinates as fractions.
quadraticBezierSplit(p0, p1, p2, t) ==
    LET m == t[1]
        n == t[2]
        r0(k) == Frac((n - m) * (n - m) * p0[k] + 2 * m * (n - m) * p1[k] + m * m * p2[k], n * n)
        r1(k) == Frac((n - m) * p1[k] + m * p2[k], n)
    IN  <<(<<r0(1), r0(2)>>), (<<r1(1), r1(2)>>), (<<(<<p2[1], 1>>), (<<p2[2], 1>>)>>)>>

\* The square of t = 2 sqrt(tolerance |denom / s2nom|), times itself: t^4 is
\* 16 tolerance^2 |D|^2 / s2nom^2, a fraction for every curve of the grid.
quadStep4(p0, p1, p2, tolerance) ==
    LET D == Sub(p1, p0)
        s2nom == PerpDot(D, Sub(p2, p0))
    IN  Frac(16 * tolerance[1] * tolerance[1] * Dot(D, D),
             tolerance[2] * tolerance[2] * s2nom * s2nom)

\* "t >= 1.0" for the t of this iteration.  For s2nom = 0 and a tolerance
\* above zero t is +Inf.
quadBreaks(p0, p1, p2, tolerance) ==
    IF PerpDot(Sub(p1, p0), Sub(p2, p0)) = 0 THEN TRUE
    ELSE quadStep4(p0, p1, p2, tolerance)[1] >= quadStep4(p0, p1, p2, tolerance)[2]

\* t is a fraction: the fourth root of quadStep4.
quadStepExact(p0, p1, p2, tolerance) ==
    LET t4 == quadStep4(p0, p1, p2, tolerance)
    IN  /\ IsSquare(t4[1]) /\ IsSquare(Sqrt(t4[1]))
        /\ IsSquare(t4[2]) /\ IsSquare(Sqrt(t4[2]))

quadStep(p0, p1, p2, tolerance) ==
    LET t4 == quadStep4(p0, p1, p2, tolerance)
    IN  Frac(Sqrt(Sqrt(t4[1])), Sqrt(Sqrt(t4[2])))

\* The state of flattenQuadraticBezier's loop: t, the remaining curve and the
\* count of iterations made.
QuadLoop(t, p0, p1, p2, steps) == [t |-> t, p0 |-> p0, p1 |-> p1, p2 |-> p2, steps |-> steps]

\* One iteration from the loop state l gives points of the grid (or leaves
\* the loop), and so do the iterations after it, up to fuel of them.
RECURSIVE quadRunExact(_, _, _)
quadRunExact(l, tolerance, fuel) ==
    LET s == quadraticBezierSplit(l.p0, l.p1, l.p2, quadStep(l.p0, l.p1, l.p2, tolerance))
    IN  IF fuel = 0 THEN TRUE
        ELSE IF PointEquals(l.p0, l.p1) THEN TRUE
        ELSE IF tolerance[1] = 0
        THEN PerpDot(Sub(l.p1, l.p0), Sub(l.p2, l.p0)) # 0
        ELSE IF quadBreaks(l.p0, l.p1, l.p2, tolerance) THEN TRUE
        ELSE IF ~quadStepExact(l.p0, l.p1, l.p2, tolerance) THEN FALSE
        ELSE IF ~(wholePoint(s[1]) /\ wholePoint(s[2])) THEN FALSE
        ELSE quadRunExact(QuadLoop(<<0, 1>>, whole(s[1]), whole(s[2]), l.p2, 0), tolerance, fuel - 1)

\* p.Flatten(tolerance) for p = M p0 Q p1 p2 reaches flattenQuadraticBezier:
\* the path of the result is started and the loop is entered with t = 0.
FlattenCall(u) ==
    \E p0 \in u.starts, p1 \in u.points, p2 \in u.points, tolerance \in u.tolerances :
        LET d == QuadTo(MoveTo(<<>>, p0[1], p0[2]), p1[1], p1[2], p2[1], p2[2])
        IN  /\ op = "new"
            /\ d[Len(d)] = QuadToCmd
            /\ quadRunExact(QuadLoop(<<0, 1>>, p0, p1, p2, 0), tolerance, MaxSteps)
            /\ op' = "flattenQuadraticBezier"
            /\ arg' = [d |-> d, tolerance |-> tolerance]
            /\ res' = QuadLoop(<<0, 1>>, p0, p1, p2, 0)
            /\ p' = MoveTo(<<>>, p0[1], p0[2])

\* What replace makes of the path d, whose last command is the curve that has
\* been flattened to q: it joins q to the commands before the curve, draws a
\* line to the end of the curve and joins the rest, a MoveTo to that end.
replaceLast(d, q) ==
    LET i == Len(d) - cmdLen(d[Len(d)])
        end == Pos(d)
    IN  Join(LineTo(Join(SubSeq(d, 1, i), q), end[1], end[2]),
             <<MoveToCmd, end[1], end[2], MoveToCmd>>)

\* One pass through the body of "for t < 1.0": the loop is left through a
\* break, the last line is drawn and Flatten returns, or the curve is split
\* at t and a line is drawn to the start of the rest.  A t that lets the loop
\* go on is below 1, so the loop is left through a break only.
QuadLoopStep ==
    /\ op = "flattenQuadraticBezier"
    /\ FracLess(res.t, <<1, 1>>)
    /\ res.steps < MaxSteps
    /\ arg' = arg
    /\ LET tolerance == arg.tolerance
           t == IF tolerance[1] = 0 THEN <<0, 1>> ELSE quadStep(res.p0, res.p1, res.p2, tolerance)
           s == quadraticBezierSplit(res.p0, res.p1, res.p2, t)
       IN  IF PointEquals(res.p0, res.p1)
              \/ (tolerance[1] # 0 /\ quadBreaks(res.p0, res.p1, res.p2, tolerance))
           THEN /\ op' = "Flatten"
                /\ res' = replaceLast(arg.d, LineTo(p, res.p2[1], res.p2[2]))
                /\ p' = arg.d
           ELSE /\ op' = op
                /\ res' = QuadLoop(t, whole(s[1]), whole(s[2]), res.p2, res.steps + 1)
                /\ p' = lineToPoint(p, whole(s[1]))

NextFlatten ==
    \/ FlattenCall(UFlatten)
    \/ QuadLoopStep

SpecFlatten == Init /\ [][NextFlatten]_vars

\* C26: Flatten(tolerance) terminates for every path and every tolerance
\* >= 0, tolerance 0 included: every iteration of the flattening loop that
\* goes on has advanced along the curve (t is above zero and the rest of the
\* curve starts at another point), and the path returned holds only MoveTo,
\* LineTo and Close commands.
C26_FlattenTerminates ==
    /\ [][op = "flattenQuadraticBezier" /\ op' = "flattenQuadraticBezier"
             => FracLess(<<0, 1>>, res'.t) /\ ~PointEquals(res'.p0, res.p0)]_vars
    /\ [](op = "Flatten" => cmdsFrom(res, 0) \subseteq {MoveToCmd, LineToCmd, CloseCmd})

(***************************************************************************)
(* SpecStream: the builder calls, each recorded with the path it was made  *)
(* on                                                                      *)
(***************************************************************************)
MaxStream == 4

UStream ==
    [moves |-> {<<0, 0>>, <<4, 0>>},
     pts |-> {<<0, 0>>, <<2, 0>>, <<2, 2>>},
     quads |-> {<<2, 2, 0, 2>>},
     cubes |-> {<<0, 2, 2, 2, 4, 0>>},
     arcs |-> {<<1, 1, 90, FALSE, TRUE, 2, 0>>,
               <<2, 1, 180, TRUE, FALSE, 0, 0>>,
               <<0, 1, 0, FALSE, FALSE, 4, 0>>},
     max |-> MaxStream]

\* The builder call name with the numbers a has made the stream d of p; the
\* stream p had before the call is kept with the numbers.
Streamed(d, name, a, max) ==
    /\ PathLen(d) <= max
    /\ p' = d
    /\ op' = name
    /\ arg' = [before |-> p, a |-> a]
    /\ res' = <<>>

StreamMoveTo(u) ==
    \E a \in u.moves : Streamed(MoveTo(p, a[1], a[2]), "MoveTo", a, u.max)

StreamLineTo(u) ==
    \E a \in u.pts : Streamed(LineTo(p, a[1], a[2]), "LineTo", a, u.max)

StreamQuadTo(u) ==
    \E a \in u.quads : Streamed(QuadTo(p, a[1], a[2], a[3], a[4]), "QuadTo", a, u.max)

StreamCubeTo(u) ==
    \E a \in u.cubes :
        Streamed(CubeTo(p, a[1], a[2], a[3], a[4], a[5], a[6]), "CubeTo", a, u.max)

StreamArcTo(u) ==
    \E a \in {x \in u.arcs : arcExact(p, x[1], x[2], x[3], x[6], x[7])} :
        Streamed(ArcTo(p, a[1], a[2], a[3], a[4], a[5], a[6], a[7]), "ArcTo", a, u.max)

StreamClose(u) == Streamed(Close(p), "Close", <<>>, u.max)

NextStream ==
    \/ StreamMoveTo(UStream)
    \/ StreamLineTo(UStream)
    \/ StreamQuadTo(UStream)
    \/ StreamCubeTo(UStream)
    \/ StreamArcTo(UStream)
    \/ StreamClose(UStream)

SpecStream == Init /\ [][NextStream]_vars

\* The command tags.
cmdTags == {MoveToCmd, LineToCmd, QuadToCmd, CubeToCmd, ArcToCmd, CloseCmd}

\* From index i the stream d is a row of whole commands: each starts with a
\* command tag, has the length of that tag, ends with the same tag, and the
\* last one ends at the end of d.
RECURSIVE wholeCommands(_, _)
wholeCommands(d, i) ==
    IF i > Len(d) THEN i = Len(d) + 1
    ELSE /\ d[i] \in cmdTags
         /\ i + cmdLen(d[i]) - 1 <= Len(d)
         /\ d[i + cmdLen(d[i]) - 1] = d[i]
         /\ wholeCommands(d, i + cmdLen(d[i]))

\* The indices at which the commands of d start, walking backward from the
\* command that ends at index i, as Reverse and StartPos walk; 0 stands for
\* a last slot that holds no command tag.
RECURSIVE cmdStartsBackward(_, _)
cmdStartsBackward(d, i) ==
    IF i <= 0 THEN {}
    ELSE IF d[i] \notin cmdTags THEN {0}
    ELSE {i - cmdLen(d[i]) + 1} \cup cmdStartsBackward(d, i - cmdLen(d[i]))

\* C27: after any sequence of builder calls the stream is a row of whole
\* commands, each with the same command tag in its first and its last slot
\* and with the length of its tag (4 for MoveTo, LineTo and Close, 6 for
\* QuadTo, 8 for CubeTo and ArcTo), and the walk forward from the first slot
\* and the walk backward from the last slot visit the same boundaries.
C27_StreamOfWholeCommands ==
    /\ wholeCommands(p, 1)
    /\ cmdStartsBackward(p, Len(p)) = cmdStarts(p, 1)
    /\ \A i \in cmdStarts(p, 1) :
          cmdLen(p[i]) = (CASE p[i] \in {MoveToCmd, LineToCmd, CloseCmd} -> 4
                            [] p[i] = QuadToCmd -> 6
                            [] p[i] \in {CubeToCmd, ArcToCmd} -> 8)

\* Close has turned the last LineTo of a path of curves into a Close in
\* place, with new coordinates.
C27_Witness ==
    /\ op = "Close"
    /\ Len(arg.before) > 0 /\ arg.before[Len(arg.before)] = LineToCmd
    /\ Len(p) = Len(arg.before)
    /\ p[Len(p)] = CloseCmd
    /\ <<p[Len(p) - 2], p[Len(p) - 1]>> # <<arg.before[Len(p) - 2], arg.before[Len(p) - 1]>>

(***************************************************************************)
(* SpecDashTwice: the dash array of the caller, which dashCanonical and    *)
(* Dash receive as a slice and write through                               *)
(***************************************************************************)
\* A slice: n elements of the array a from index lo (counted from 0); fresh
\* is true for a slice of an array of its own, which the caller does not see.
Slice(a, lo, n, fresh) == [a |-> a, lo |-> lo, n |-> n, fresh |-> fresh]

\* d[k] of the slice v, k counted from 0.
sliceAt(v, k) == v.a[v.lo + k + 1]

\* The elements of the slice v.
sliceElems(v) == SubSeq(v.a, v.lo + 1, v.lo + v.n)

\* d[i-1] += d[i+1]; d = append(d[:i], d[i+2:]...): the elements from i+2
\* are moved two places down in the array, which keeps its old last two.
sliceCut(v, i) ==
    LET a1 == [v.a EXCEPT ![v.lo + i] = @ + sliceAt(v, i + 1)]
        a2 == [k \in 1..Len(a1) |->
                  IF v.lo + i < k /\ k <= v.lo + v.n - 2 THEN a1[k + 2] ELSE a1[k]]
    IN  Slice(a2, v.lo, v.n - 2, v.fresh)

\* dashCanonical's "remove zeros except first and last", from index i.
RECURSIVE sliceInnerZeros(_, _)
sliceInnerZeros(v, i) ==
    IF i >= v.n - 1 THEN v
    ELSE IF Equal(sliceAt(v, i), 0) THEN sliceInnerZeros(sliceCut(v, i), i)
    ELSE sliceInnerZeros(v, i + 1)

\* dashCanonical's "remove first zero": the slice, and whether the call
\* returns here.
sliceFirstZero(v) ==
    IF ~Equal(sliceAt(v, 0), 0) \/ v.n < 3 THEN v
    ELSE Slice([v.a EXCEPT ![v.lo + v.n] = @ + sliceAt(v, 1)], v.lo + 2, v.n - 2, v.fresh)

\* dashCanonical's "remove last zero".
sliceLastZero(v) ==
    IF ~Equal(sliceAt(v, v.n - 1), 0) \/ v.n < 3 THEN v
    ELSE Slice([v.a EXCEPT ![v.lo + 1] = @ + sliceAt(v, v.n - 2)], v.lo, v.n - 2, v.fresh)

\* dashCanonical's "remove repeated patterns".
RECURSIVE sliceRepeats(_)
sliceRepeats(v) ==
    LET mid == v.n \div 2
    IN  IF v.n % 2 = 0 /\ \A i \in 0..(mid - 1) : Equal(sliceAt(v, i), sliceAt(v, mid + i))
        THEN sliceRepeats(Slice(v.a, v.lo, mid, v.fresh))
        ELSE v

\* The slice dashCanonical returns for the caller's slice d, and with it, in
\* its field caller, the caller's array after the call.
dashCanonicalSlice(d) ==
    LET zero(v) == [a |-> <<0>>, lo |-> 0, n |-> 1, fresh |-> TRUE, caller |-> v.a]
        none(v) == [a |-> <<>>, lo |-> 0, n |-> 0, fresh |-> TRUE, caller |-> v.a]
        ends(v2) ==
            IF \E i \in 0..(v2.n - 1) : sliceAt(v2, i) < 0 \/ Equal(sliceAt(v2, i), 0)
            THEN zero(v2)
            ELSE [a |-> v2.a, lo |-> v2.lo, n |-> sliceRepeats(v2).n, fresh |-> FALSE,
                  caller |-> v2.a]
        last(v1) ==
            IF Equal(sliceAt(v1, v1.n - 1), 0) /\ v1.n < 3 THEN none(v1)
            ELSE ends(sliceLastZero(v1))
        first(v0) ==
            IF Equal(sliceAt(v0, 0), 0) /\ v0.n < 3 THEN zero(v0)
            ELSE last(sliceFirstZero(v0))
    IN  IF Len(d) = 0 THEN none(Slice(d, 0, 0, FALSE))
        ELSE first(sliceInnerZeros(Slice(d, 0, Len(d), FALSE), 1))

\* The caller's array after p.Dash(offset, d...): Dash's "d = append(d, d...)"
\* for a pattern of odd length writes behind the slice when the array has the
\* room, and makes an array of its own otherwise.
DashCaller(d) ==
    LET appended(v) ==
            IF v.fresh \/ v.n % 2 = 0 \/ v.lo + 2 * v.n > Len(v.a) THEN v.caller
            ELSE [k \in 1..Len(v.a) |->
                     IF v.lo + v.n < k /\ k <= v.lo + 2 * v.n THEN v.a[k - v.n] ELSE v.a[k]]
    IN  appended(dashCanonicalSlice(d))

UDashTwice ==
    [paths |-> {<<MoveToCmd, 0, 0, MoveToCmd, LineToCmd, 8, 0, LineToCmd>>,
                <<MoveToCmd, 0, 0, MoveToCmd, LineToCmd, 8, 0, LineToCmd,
                  LineToCmd, 8, 4, LineToCmd>>,
                <<MoveToCmd, 0, 0, MoveToCmd, LineToCmd, 8, 0, LineToCmd,
                  LineToCmd, 8, 4, LineToCmd, LineToCmd, 0, 4, LineToCmd,
                  CloseCmd, 0, 0, CloseCmd>>},
     offsets |-> {0, 1, 2},
     dashes |-> {<<>>, <<2>>, <<2, 1>>, <<3, 1, 1>>, <<0, 2>>, <<2, 0, 1, 1>>,
                 <<0, 1, 0>>, <<0, 0, 1>>, <<1, 0, 2, 3>>, <<2, 0>>, <<1, 2, 0, 0>>}]

\* q := p.Dash(offset, d...) with the caller's slice: the first call, on a
\* path, an offset and a pattern of u, or the second call with the same path
\* and offset and with the slice as the first call has left it.  The paths
\* are those of DashCall: flat, and every distance taken along an axis.
DashSliceCall(u) ==
    \E pd \in {q \in u.paths : axisParallel(q) /\ dashCurves(q) = <<>>},
       offset \in u.offsets, d0 \in u.dashes :
        LET again == op = "Dash"
            d == IF again THEN res.d ELSE d0
            result(q) == [d |-> DashCaller(d),
                          first |-> IF again THEN res.first ELSE q,
                          second |-> IF again THEN q ELSE <<>>]
        IN  /\ IF again THEN pd = p /\ offset = arg.offset /\ d0 = arg.d ELSE op = "new"
            /\ p' = pd
            /\ op' = (IF again THEN "Dash, Dash" ELSE "Dash")
            /\ arg' = [offset |-> offset, d |-> d0]
            /\ res' = result(Dash(pd, offset, d))

NextDashTwice == DashSliceCall(UDashTwice)

SpecDashTwice == Init /\ [][NextDashTwice]_vars

\* C28: Dash and dashCanonical leave the dash array of the caller as it is,
\* and two calls of Dash with the same offset and the same dash slice on the
\* same path return equal paths, also for a pattern with lengths of zero.
C28_DashKeepsCallersArray ==
    /\ op \in {"Dash", "Dash, Dash"} => res.d = arg.d
    /\ op = "Dash, Dash" => res.second = res.first

(***************************************************************************)
(* SpecRotation: a line is intersected with an arc that ArcTo has stored   *)
(***************************************************************************)
\* The start points, arcs <<rx, ry, rot, large, sweep>> (rot in degrees) and
\* end points of the ArcTo calls, and the lines with their start points.
URotation ==
    [starts |-> {<<0, 0>>, <<0, 4>>},
     arcs |-> {<<r[1], r[2], rot, large, sweep>> :
                  r \in {<<4, 2>>, <<2, 4>>, <<2, 2>>, <<8, 4>>},
                  rot \in {0, 90, 180, 0 - 90}, large \in BOOLEAN, sweep \in BOOLEAN},
     ends |-> {<<4, 0>>, <<8, 0>>, <<0, 8>>, <<8, 4>>},
     lines |-> {<<<<0, 0>>, <<LineToCmd, 4, 4>>>>, <<<<4, 4>>, <<CloseCmd, 0, 0>>>>}]

\* The last command of the path d without its closing tag, as
\* intersectionSegment receives it.
lastSegment(d) == SubSeq(d, Len(d) - cmdLen(d[Len(d)]) + 1, Len(d) - 1)

\* p.MoveTo(start); p.ArcTo(arc, end), and then intersectionSegment of a
\* line and the arc as p stores it, in either order.
RotationCall(u) ==
    \E start \in u.starts, a \in u.arcs, end \in u.ends, l \in u.lines, arcFirst \in BOOLEAN :
        LET d0 == MoveTo(<<>>, start[1], start[2])
            d == ArcTo(d0, a[1], a[2], a[3], a[4], a[5], end[1], end[2])
        IN  /\ arcExact(d0, a[1], a[2], a[3], end[1], end[2])
            /\ d[Len(d)] = ArcToCmd
            /\ p' = d
            /\ op' = "intersectionSegment"
            /\ arg' = IF arcFirst THEN <<(<<start, lastSegment(d)>>), l>>
                      ELSE <<l, (<<start, lastSegment(d)>>)>>
            /\ res' = [zs |-> IF arcFirst
                              THEN intersectionSegment(start, lastSegment(d), l[1], l[2])
                              ELSE intersectionSegment(l[1], l[2], start, lastSegment(d)),
                       phi |-> segmentPhi(lastSegment(d))]

NextRotation == op = "new" /\ RotationCall(URotation)

SpecRotation == Init /\ [][NextRotation]_vars

\* C29: the rotation intersectionSegment passes to ellipseToCenter and to the
\* ellipse solvers for an arc is the rotation the path stores for it, in
\* radians, the value Bounds and Length read from the stream.
C29_SegmentRotationAsStored ==
    op = "intersectionSegment" => res.phi = p[Len(p) - 4]

(***************************************************************************)
(* The geometry of a path: its subpaths and their segments                 *)
(***************************************************************************)
\* A segment: the command that draws it (LineToCmd for the line of a Close),
\* its end points and its other numbers.
Segment(cmd, from, to, a) == [cmd |-> cmd, from |-> from, to |-> to, a |-> a]

\* The segment of the command at index i of d.
segmentAt(d, i) ==
    LET from == startOf(d, i)
    IN  CASE d[i] = QuadToCmd ->
               Segment(QuadToCmd, from, <<d[i + 3], d[i + 4]>>, <<d[i + 1], d[i + 2]>>)
          [] d[i] = CubeToCmd ->
               Segment(CubeToCmd, from, <<d[i + 5], d[i + 6]>>,
                       <<d[i + 1], d[i + 2], d[i + 3], d[i + 4]>>)
          [] d[i] = ArcToCmd ->
               Segment(ArcToCmd, from, <<d[i + 5], d[i + 6]>>,
                       <<d[i + 1], d[i + 2], d[i + 3],
                         toArcFlags(d[i + 4])[1], toArcFlags(d[i + 4])[2]>>)
          [] OTHER -> Segment(LineToCmd, from, <<d[i + 1], d[i + 2]>>, <<>>)

\* The segment s drawn the other way.
segmentReversed(s) ==
    Segment(s.cmd, s.to, s.from,
            CASE s.cmd = CubeToCmd -> <<s.a[3], s.a[4], s.a[1], s.a[2]>>
              [] s.cmd = ArcToCmd -> <<s.a[1], s.a[2], s.a[3], s.a[4], ~s.a[5]>>
              [] OTHER -> s.a)

\* A subpath: the point it starts at, its segments and whether it is closed.
Subpath(start, segs, closed) == [start |-> start, segs |-> segs, closed |-> closed]

\* The subpaths of d from index i, after the subpaths subs.  A line of zero
\* length, of a LineTo or of a Close, is no segment.
RECURSIVE subpathsFrom(_, _, _)
subpathsFrom(d, i, subs) ==
    LET n == Len(subs)
        s == segmentAt(d, i)
        segs == IF s.cmd = LineToCmd /\ PointEquals(s.from, s.to) THEN subs[n].segs
                ELSE Append(subs[n].segs, s)
    IN  IF i > Len(d) THEN subs
        ELSE IF d[i] = MoveToCmd
        THEN subpathsFrom(d, i + cmdLen(d[i]),
                          Append(subs, Subpath(<<d[i + 1], d[i + 2]>>, <<>>, FALSE)))
        ELSE subpathsFrom(d, i + cmdLen(d[i]),
                          [subs EXCEPT ![n] = Subpath(subs[n].start, segs, d[i] = CloseCmd)])

Subpaths(d) == subpathsFrom(d, 1, <<>>)

seqReversed(s) == [k \in 1..Len(s) |-> s[Len(s) + 1 - k]]

\* The subpath sub drawn the other way: a closed one from the same point, an
\* open one from its end.
subpathReversed(sub) ==
    LET n == Len(sub.segs)
    IN  Subpath(IF sub.closed \/ n = 0 THEN sub.start ELSE sub.segs[n].to,
                [k \in 1..n |-> segmentReversed(sub.segs[n + 1 - k])],
                sub.closed)

\* C30: Reverse keeps the closedness and the geometry of every subpath: the
\* subpaths and their segments come in reverse order, each segment drawn the
\* other way (the control points of a cubic exchanged, the sweep flag of an
\* arc negated, its radii, rotation and large flag kept), a closed subpath
\* stays closed and starts at the same point, and the line of a Close of
\* non-zero length is the first segment of the reversed subpath.
C30_ReverseKeepsGeometry ==
    [][op' = "Reverse" =>
          /\ Subpaths(p') = [k \in 1..Len(Subpaths(p)) |->
                                subpathReversed(Subpaths(p)[Len(Subpaths(p)) + 1 - k])]
          /\ \A i \in cmdStarts(p, 1) :
                p[i] = CloseCmd /\ ~PointEquals(startOf(p, i), <<p[i + 1], p[i + 2]>>)
                    => \E j \in cmdStarts(p', 1) :
                          /\ p'[j] = MoveToCmd /\ p'[j + cmdLen(MoveToCmd)] = LineToCmd
                          /\ <<p'[j + 1], p'[j + 2]>> = <<p[i + 1], p[i + 2]>>
                          /\ <<p'[j + 5], p'[j + 6]>> = startOf(p, i)]_vars

\* A reversed path whose last subpath is closed, starts with the line of the
\* Close and ends in a curve.
C30_Witness ==
    /\ op = "Reverse"
    /\ Len(p) > 0 /\ p[Len(p)] = CloseCmd
    /\ Len(Subpaths(p)[Len(Subpaths(p))].segs) >= 2
    /\ Subpaths(p)[Len(Subpaths(p))].segs[1].cmd = LineToCmd
    /\ Subpaths(p)[Len(Subpaths(p))].segs[2].cmd # LineToCmd
====
